---- MODULE Spec2Model ----
(***************************************************************************)
(* A model of the content-analysis pipeline of the reddit-scraper          *)
(* repository: text normalization (DataProcessor.clean_and_normalize_text),*)
(* entity resolution (SmartEntityExtractor), near-duplicate detection      *)
(* (DataProcessor.detect_duplicates) and labeling (LabelingSystem,         *)
(* SmartLabelingAnalyzer).                                                 *)
(*                                                                         *)
(* Texts are sequences of one-character strings.  The regular expressions  *)
(* of the source are kept as syntax trees and matched by a backtracking    *)
(* matcher with the priorities of Python's re module (leftmost start,      *)
(* greedy repetition, first alternative first).                            *)
(***************************************************************************)
EXTENDS Integers, Sequences, FiniteSets, TLC

VARIABLES
    n_pc,       \* normalizer: "start", "once" (one pass done), "twice"
    n_text,     \* normalizer: the raw text
    n_mid,      \* normalizer: the text after URL, e-mail and entity removal (pass 1)
    n_out,      \* normalizer: clean_and_normalize_text(n_text)
    n_out2,     \* normalizer: clean_and_normalize_text(n_out)
    r_pc,       \* resolver: "new", "ready" (DataProcessor constructed), "done"
    r_text,     \* resolver: the text given to extract_entities
    r_cfg,      \* resolver: smart_extraction of the configuration
    r_models,   \* resolver: smart_extractor is set, the models it loaded
    r_outs,     \* resolver: the strategies that ran and what each returned
    r_smart,    \* resolver: how extract_entities_smart ended
    r_result,   \* resolver: the value extract_entities returned
    s_pc,       \* similarity: "start", "compared"
    s_text1,    \* similarity: the first text
    s_text2,    \* similarity: the second text
    s_ratio,    \* similarity: calculate_text_similarity(s_text1, s_text2) as <<numerator, denominator>>
    d_pc,       \* detector: "ready", "detected" (detect_duplicates returned), "removed"
    d_cfg,      \* detector: processing of the configuration
    d_posts,    \* detector: the posts table, id -> row
    d_rows,     \* detector: the rows the candidate query returned, in the order returned
    d_dups,     \* detector: the list detect_duplicates returned
    d_flagged,  \* detector: duplicate_ids of remove_invalid_data
    l_pc,       \* labeler: "ready", "returned" (label_post returned), "scored", "labeled" (label_all_posts returned)
    l_threshold,\* labeler: labeling.confidence_threshold in hundredths
    l_posts,    \* labeler: the posts table, id -> row
    l_text,     \* labeler: the text given to label_post
    l_results,  \* labeler: the value label_post or calculate_sentiment_score returned
    l_count,    \* labeler: the count label_all_posts returned
    l_failed,   \* labeler: the ids of the posts whose labeling or update raised
    a_pc,       \* analyzer: "new", "ready" (SmartLabelingAnalyzer constructed), "analyzed"
    a_methods,  \* analyzer: smart_labeling.methods of the configuration, NoMethods without the key
    a_loaded,   \* analyzer: the sources whose model or client the constructor loaded
    a_text,     \* analyzer: the text given to analyze_comprehensive
    a_answers,  \* analyzer: what each source answers for a_text, source -> answer
    a_merged,   \* analyzer: results after the merges, before the adjustments
    a_results,  \* analyzer: the value analyze_comprehensive returned
    p_pc,       \* store: "ready", "processing" (process_all_posts is in its loop)
    p_cfg,      \* store: confidence_threshold (hundredths) and enable_language_filter of the configuration
    p_posts,    \* store: the posts table, id -> row
    p_next,     \* store: the id that AUTOINCREMENT gives the next row
    p_batch,    \* store: the ids process_all_posts has still to process, in the order of its query result
    p_count,    \* store: the count the last entry point returned (processed_count while the loop runs)
    p_op,       \* store: the entry point called last
    p_inorder,  \* store: the entry points were called in the order scrape, process, remove, label
    p_ncalls,   \* store: the number of calls of entry points
    p_removed,  \* store: <<id, post_id>> of the records removed so far
    p_outcomes, \* store: how each post of the last batch ended, id -> outcome
    p_touched,  \* store: the ids the last step normalized, compared or labeled
    p_gone,     \* store: the ids that were removed before the last step touched its records
    p_raised,   \* store: the last entry point raised to its caller
    p_first,    \* store: the ids that were unprocessed when process_all_posts started first
    p_writes,   \* store: the number of committed updates of process_all_posts, id -> number
    p_crashes,  \* store: the number of times the process stopped inside process_all_posts
    p_failed,   \* store: the ids whose processing or update raised at some time
    p_before,   \* store: the posts table when the last entry point was called
    p_submitted, \* store: post_id and content_hash of the last save_api_post_data
    p_prev      \* store: the entry point called before the last one, and how it ended

normVars == <<n_pc, n_text, n_mid, n_out, n_out2>>
resolverVars == <<r_pc, r_text, r_cfg, r_models, r_outs, r_smart, r_result>>

similarityVars == <<s_pc, s_text1, s_text2, s_ratio>>
detectorVars == <<d_pc, d_cfg, d_posts, d_rows, d_dups, d_flagged>>

labelerVars == <<l_pc, l_threshold, l_posts, l_text, l_results, l_count, l_failed>>

analyzerVars == <<a_pc, a_methods, a_loaded, a_text, a_answers, a_merged, a_results>>

storeVars ==
    <<p_pc, p_cfg, p_posts, p_next, p_batch, p_count, p_op, p_inorder, p_ncalls, p_removed,
      p_outcomes, p_touched, p_gone, p_raised, p_first, p_writes, p_crashes, p_failed, p_before,
      p_submitted, p_prev>>

vars == <<normVars, resolverVars, similarityVars, detectorVars, labelerVars, analyzerVars, storeVars>>

\* The variables that the operations of one component leave alone.
outsideNorm == <<resolverVars, similarityVars, detectorVars, labelerVars, analyzerVars, storeVars>>
outsideResolver == <<normVars, similarityVars, detectorVars, labelerVars, analyzerVars, storeVars>>
outsideSimilarity == <<normVars, resolverVars, detectorVars, labelerVars, analyzerVars, storeVars>>
outsideDetector == <<normVars, resolverVars, similarityVars, labelerVars, analyzerVars, storeVars>>
outsideLabeler == <<normVars, resolverVars, similarityVars, detectorVars, analyzerVars, storeVars>>
outsideAnalyzer == <<normVars, resolverVars, similarityVars, detectorVars, labelerVars, storeVars>>
outsideStore == <<normVars, resolverVars, similarityVars, detectorVars, labelerVars, analyzerVars>>

\* A component that a specification leaves out stays idle.
NormIdle == n_pc = "idle" /\ n_text = <<>> /\ n_mid = <<>> /\ n_out = <<>> /\ n_out2 = <<>>
ResolverIdle ==
    /\ r_pc = "idle" /\ r_text = <<>> /\ r_cfg = <<>> /\ r_models = <<>>
    /\ r_outs = <<>> /\ r_smart = <<>> /\ r_result = <<>>
SimilarityIdle == s_pc = "idle" /\ s_text1 = <<>> /\ s_text2 = <<>> /\ s_ratio = <<>>
DetectorIdle ==
    /\ d_pc = "idle" /\ d_cfg = <<>> /\ d_posts = <<>>
    /\ d_rows = <<>> /\ d_dups = <<>> /\ d_flagged = <<>>
LabelerIdle ==
    /\ l_pc = "idle" /\ l_threshold = <<>> /\ l_posts = <<>> /\ l_text = <<>> /\ l_results = <<>> /\ l_count = <<>> /\ l_failed = <<>>
AnalyzerIdle ==
    /\ a_pc = "idle" /\ a_methods = <<>> /\ a_loaded = <<>> /\ a_text = <<>> /\ a_answers = <<>> /\ a_merged = <<>> /\ a_results = <<>>
StoreIdle ==
    /\ p_pc = "idle" /\ p_cfg = <<>> /\ p_posts = <<>> /\ p_next = <<>> /\ p_batch = <<>>
    /\ p_count = <<>> /\ p_op = <<>> /\ p_inorder = <<>> /\ p_ncalls = <<>> /\ p_removed = <<>>
    /\ p_outcomes = <<>> /\ p_touched = <<>> /\ p_gone = <<>> /\ p_raised = <<>> /\ p_first = <<>>
    /\ p_writes = <<>> /\ p_crashes = <<>> /\ p_failed = <<>> /\ p_before = <<>> /\ p_submitted = <<>>
    /\ p_prev = <<>>

(***************************************************************************)
(* Characters                                                              *)
(***************************************************************************)
LowerSeq == <<"a", "b", "c", "d", "e", "f", "g", "h", "i", "j", "k", "l", "m",
              "n", "o", "p", "q", "r", "s", "t", "u", "v", "w", "x", "y", "z">>
UpperSeq == <<"A", "B", "C", "D", "E", "F", "G", "H", "I", "J", "K", "L", "M",
              "N", "O", "P", "Q", "R", "S", "T", "U", "V", "W", "X", "Y", "Z">>
\* The printable ASCII characters in code order, 0x20 .. 0x7E (without the
\* grave accent 0x60, which a TLA+ string cannot hold).
AsciiSeq == <<" ", "!", "\"", "#", "$", "%", "&", "'", "(", ")", "*", "+", ",",
              "-", ".", "/", "0", "1", "2", "3", "4", "5", "6", "7", "8", "9",
              ":", ";", "<", "=", ">", "?", "@", "A", "B", "C", "D", "E", "F",
              "G", "H", "I", "J", "K", "L", "M", "N", "O", "P", "Q", "R", "S",
              "T", "U", "V", "W", "X", "Y", "Z", "[", "\\", "]", "^", "_",
              "a", "b", "c", "d", "e", "f", "g", "h", "i", "j", "k", "l", "m",
              "n", "o", "p", "q", "r", "s", "t", "u", "v", "w", "x", "y", "z",
              "{", "|", "}", "~">>

SeqToSet(q) == {q[k] : k \in 1..Len(q)}

LowerSet == SeqToSet(LowerSeq)
UpperSet == SeqToSet(UpperSeq)
LetterSet == LowerSet \cup UpperSet
DigitSet == {"0", "1", "2", "3", "4", "5", "6", "7", "8", "9"}
\* \s and \w of Python's re, within the alphabet of the model.
SpaceSet == {" ", "\t", "\n"}
WordSet == LetterSet \cup DigitSet \cup {"_"}
Alphabet == SeqToSet(AsciiSeq) \cup SpaceSet

\* A character range a-b of a character class.
CharRange(a, b) ==
    LET ia == CHOOSE k \in 1..Len(AsciiSeq) : AsciiSeq[k] = a
        ib == CHOOSE k \in 1..Len(AsciiSeq) : AsciiSeq[k] = b
    IN  {AsciiSeq[k] : k \in ia..ib}

\* str.lower() and str.upper() of one character.
LowerChar(c) ==
    IF c \in UpperSet
    THEN LowerSeq[CHOOSE k \in 1..26 : UpperSeq[k] = c]
    ELSE c
UpperChar(c) ==
    IF c \in LowerSet
    THEN UpperSeq[CHOOSE k \in 1..26 : LowerSeq[k] = c]
    ELSE c

\* Three characters outside ASCII, each written as a name: the Greek capital
\* sigma (U+03A3), the small sigma (U+03C3) and the final small sigma
\* (U+03C2).
CapitalSigma == "SIGMA"
SmallSigma == "sigma"
FinalSigma == "final sigma"

\* The cased characters and the case-ignorable characters of the alphabet.
CasedSet == LetterSet \cup {CapitalSigma, SmallSigma, FinalSigma}
CaseIgnorable == {"'", ".", ":", "^"}

\* The capital sigma at place k of s stands in final position: the nearest
\* character before it that is not case-ignorable is cased, and the nearest
\* such character after it, if any, is not cased.
FinalSigmaAt(s, k) ==
    /\ \E j \in 1..(k - 1) :
          s[j] \in CasedSet /\ \A m \in (j + 1)..(k - 1) : s[m] \in CaseIgnorable
    /\ ~\E j \in (k + 1)..Len(s) :
          s[j] \in CasedSet /\ \A m \in (k + 1)..(j - 1) : s[m] \in CaseIgnorable

\* str.lower(): character by character, except that a capital sigma becomes
\* the final small sigma in final position and the small sigma elsewhere.
LowerStr(s) ==
    [k \in 1..Len(s) |->
        IF s[k] = CapitalSigma
        THEN IF FinalSigmaAt(s, k) THEN FinalSigma ELSE SmallSigma
        ELSE LowerChar(s[k])]

\* A character class under re.IGNORECASE.
IgnoreCase(S) == S \cup {LowerChar(c) : c \in S} \cup {UpperChar(c) : c \in S}

(***************************************************************************)
(* Regular expressions (Python's re)                                       *)
(*                                                                         *)
(* A pattern is a syntax tree.  Ends(r, s, i) lists the offsets at which a *)
(* match of r that starts at offset i (after i characters of s) can end,   *)
(* in the order in which the backtracking matcher of re tries them: the    *)
(* head of the list is the match re takes.  The definitions use bounded    *)
(* quantifiers and sequence constructors in place of recursion over the    *)
(* text wherever they can.                                                 *)
(***************************************************************************)
Eps == [t |-> "eps"]
Ch(S) == [t |-> "set", s |-> S]
\* A sequence of character classes, one per character (a literal).
Classes(q) == [t |-> "lit", q |-> q]
Lit(q) == Classes([k \in 1..Len(q) |-> {q[k]}])
LitI(q) == Classes([k \in 1..Len(q) |-> IgnoreCase({q[k]})])
\* The concatenation of the patterns of the sequence ps.
Cats(ps) == [t |-> "seq", ps |-> ps]
Alt(a, b) == [t |-> "alt", a |-> a, b |-> b]
\* S{lo,hi} for a character class S (greedy); hi = -1 for no upper limit.
Run(S, lo, hi) == [t |-> "run", s |-> S, lo |-> lo, hi |-> hi]
Plus(S) == Run(S, 1, -1)
Star(S) == Run(S, 0, -1)
AtLeast(S, lo) == Run(S, lo, -1)
Opt(a) == Alt(a, Eps)
\* (?:a)* for a pattern a (greedy).
Repeat(a) == [t |-> "star", a |-> a]
WordBoundary == [t |-> "wb"]
LookAhead(a) == [t |-> "look", a |-> a]

IsWordAt(s, k) == k >= 1 /\ k <= Len(s) /\ s[k] \in WordSet

\* The ends of a greedy run of lo to hi characters of S from offset i, the
\* longest run first.
RunEnds(S, lo, hi, s, i) ==
    LET n == Cardinality({k \in 1..(Len(s) - i) : \A j \in 1..k : s[i + j] \in S})
        top == IF hi >= 0 /\ hi < n THEN hi ELSE n
    IN  IF top < lo THEN <<>> ELSE [j \in 1..(top - lo + 1) |-> i + top + 1 - j]

\* The concatenation of the sequences of R, in order.
Flatten(R) ==
    IF Len(R) = 0 THEN <<>>
    ELSE IF Len(R) = 1 THEN R[1]
    ELSE IF \A k \in 1..Len(R) : Len(R[k]) <= 1
    THEN LET F == SelectSeq(R, LAMBDA q : q # <<>>)
         IN  [m \in 1..Len(F) |-> F[m][1]]
    ELSE LET before(k) == Cardinality({<<k2, j>> \in (1..Len(R)) \X (1..64) :
                                         k2 < k /\ j <= Len(R[k2])})
             total == before(Len(R) + 1)
         IN  [m \in 1..total |->
                LET k == CHOOSE k \in 1..Len(R) :
                             before(k) < m /\ m <= before(k) + Len(R[k])
                IN  R[k][m - before(k)]]

RECURSIVE Ends(_, _, _)
RECURSIVE SeqEnds(_, _, _, _)

\* The ends of the parts k.. of a concatenation, matched from each of starts.
SeqEnds(ps, s, starts, k) ==
    IF k > Len(ps) \/ starts = <<>> THEN starts
    ELSE SeqEnds(ps, s, Flatten([m \in 1..Len(starts) |-> Ends(ps[k], s, starts[m])]), k + 1)

Ends(r, s, i) ==
    CASE r.t = "eps" -> <<i>>
      [] r.t = "set" -> IF i < Len(s) /\ s[i + 1] \in r.s THEN <<i + 1>> ELSE <<>>
      [] r.t = "lit" -> IF /\ i + Len(r.q) <= Len(s)
                           /\ \A k \in 1..Len(r.q) : s[i + k] \in r.q[k]
                        THEN <<i + Len(r.q)>> ELSE <<>>
      [] r.t = "seq" -> SeqEnds(r.ps, s, <<i>>, 1)
      [] r.t = "alt" -> Ends(r.a, s, i) \o Ends(r.b, s, i)
      [] r.t = "run" -> RunEnds(r.s, r.lo, r.hi, s, i)
      [] r.t = "star" ->
            LET first == SelectSeq(Ends(r.a, s, i), LAMBDA e : e > i)
            IN  Flatten([m \in 1..Len(first) |-> Ends(r, s, first[m])]) \o <<i>>
      [] r.t = "wb" -> IF IsWordAt(s, i) # IsWordAt(s, i + 1) THEN <<i>> ELSE <<>>
      [] r.t = "look" -> IF Ends(r.a, s, i) # <<>> THEN <<i>> ELSE <<>>

\* re.search from offset pos: <<start, end>> of the leftmost match, or <<>>.
\* found lists <<start, ends>> for the starts that have a match, in order.
Leftmost(found) == IF found = <<>> THEN <<>> ELSE <<found[1][1], found[1][2][1]>>

Search(r, s, pos) ==
    Leftmost(SelectSeq([k \in 1..(Len(s) + 1 - pos) |->
                           <<pos + k - 1, Ends(r, s, pos + k - 1)>>],
                       LAMBDA m : m[2] # <<>>))

Matches(r, s) == Search(r, s, 0) # <<>>

\* re.sub(r, repl, s) for a pattern that matches no empty string.
RECURSIVE SubFrom(_, _, _, _)
RECURSIVE SubMatch(_, _, _, _, _)

\* The rest of the substitution from offset pos on, m being the next match.
SubMatch(r, repl, s, pos, m) ==
    IF m = <<>> \/ m[2] = m[1] THEN SubSeq(s, pos + 1, Len(s))
    ELSE SubSeq(s, pos + 1, m[1]) \o repl \o SubFrom(r, repl, s, m[2])

SubFrom(r, repl, s, pos) == SubMatch(r, repl, s, pos, Search(r, s, pos))

Sub(r, repl, s) == IF s = <<>> THEN <<>> ELSE SubFrom(r, repl, s, 0)

\* str.strip()
Strip(s) ==
    LET kept == {k \in 1..Len(s) : s[k] \notin SpaceSet}
    IN  IF kept = {} THEN <<>>
        ELSE SubSeq(s, CHOOSE k \in kept : \A j \in kept : k <= j,
                       CHOOSE k \in kept : \A j \in kept : k >= j)

(***************************************************************************)
(* Normalizer: DataProcessor._compile_patterns, clean_and_normalize_text   *)
(* and utils.expand_abbreviations                                          *)
(***************************************************************************)
\* The characters one repetition of the URL group can match:
\* [a-zA-Z] | [0-9] | [$-_@.&+] | [!*\\(\\),].  The last alternative of the
\* group, %[0-9a-fA-F][0-9a-fA-F], matches only strings that three
\* repetitions of the other alternatives match as well ('%' and the digits lie
\* in [$-_], the letters in [a-zA-Z]), so the group repeated is a run of these
\* characters.
UrlChars ==
    LetterSet \cup DigitSet \cup CharRange("$", "_") \cup {"@", ".", "&", "+"}
              \cup {"!", "*", "\\", "(", ")", ","}

\* http[s]?://(?:[a-zA-Z]|[0-9]|[$-_@.&+]|[!*\\(\\),]|(?:%[0-9a-fA-F][0-9a-fA-F]))+
url_pattern ==
    Cats(<<Lit(<<"h", "t", "t", "p">>), Opt(Ch({"s"})), Lit(<<":", "/", "/">>), Plus(UrlChars)>>)

\* \b[A-Za-z0-9._%+-]+@[A-Za-z0-9.-]+\.[A-Z|a-z]{2,}\b
email_pattern ==
    Cats(<<WordBoundary,
          Plus(LetterSet \cup DigitSet \cup {".", "_", "%", "+", "-"}),
          Ch({"@"}),
          Plus(LetterSet \cup DigitSet \cup {".", "-"}),
          Ch({"."}),
          AtLeast(LetterSet \cup {"|"}, 2),
          WordBoundary>>)

\* \s+
whitespace_pattern == Plus(SpaceSet)

\* A whitelist that also keeps the slash.
KeptCharsAndSlash ==
    WordSet \cup SpaceSet \cup {".", ",", "!", "?", ";", ":", "(", ")", "-", "'", "\"", "/"}

\* The characters the special-character pattern keeps: \w\s.,!?;:()\-\'\"
KeptChars == WordSet \cup SpaceSet \cup {".", ",", "!", "?", ";", ":", "(", ")", "-", "'", "\""}

\* [^\w\s.,!?;:()\-\'\"]+
special_char_pattern == Plus(Alphabet \ KeptChars)

\* &[a-zA-Z0-9#]+;
entity_pattern == Cats(<<Ch({"&"}), Plus(LetterSet \cup DigitSet \cup {"#"}), Ch({";"})>>)

\* The abbreviation dictionary, in its insertion order.
abbreviations == <<
    <<<<"u", "n", "i">>, <<"u", "n", "i", "v", "e", "r", "s", "i", "t", "y">>>>,
    <<<<"C", "S">>, <<"C", "o", "m", "p", "u", "t", "e", "r", " ", "S", "c", "i", "e", "n", "c", "e">>>>,
    <<<<"E", "E">>, <<"E", "l", "e", "c", "t", "r", "i", "c", "a", "l", " ", "E", "n", "g", "i", "n", "e", "e", "r", "i", "n", "g">>>>,
    <<<<"M", "E">>, <<"M", "e", "c", "h", "a", "n", "i", "c", "a", "l", " ", "E", "n", "g", "i", "n", "e", "e", "r", "i", "n", "g">>>>,
    <<<<"C", "M", "U">>, <<"C", "a", "r", "n", "e", "g", "i", "e", " ", "M", "e", "l", "l", "o", "n", " ", "U", "n", "i", "v", "e", "r", "s", "i", "t", "y">>>>,
    <<<<"M", "I", "T">>, <<"M", "a", "s", "s", "a", "c", "h", "u", "s", "e", "t", "t", "s", " ", "I", "n", "s", "t", "i", "t", "u", "t", "e", " ", "o", "f", " ", "T", "e", "c", "h", "n", "o", "l", "o", "g", "y">>>>,
    <<<<"U", "C">>, <<"U", "n", "i", "v", "e", "r", "s", "i", "t", "y", " ", "o", "f", " ", "C", "a", "l", "i", "f", "o", "r", "n", "i", "a">>>>,
    <<<<"G", "P", "A">>, <<"G", "r", "a", "d", "e", " ", "P", "o", "i", "n", "t", " ", "A", "v", "e", "r", "a", "g", "e">>>>,
    <<<<"G", "R", "E">>, <<"G", "r", "a", "d", "u", "a", "t", "e", " ", "R", "e", "c", "o", "r", "d", " ", "E", "x", "a", "m", "i", "n", "a", "t", "i", "o", "n">>>>,
    <<<<"T", "O", "E", "F", "L">>, <<"T", "e", "s", "t", " ", "o", "f", " ", "E", "n", "g", "l", "i", "s", "h", " ", "a", "s", " ", "a", " ", "F", "o", "r", "e", "i", "g", "n", " ", "L", "a", "n", "g", "u", "a", "g", "e">>>>,
    <<<<"I", "E", "L", "T", "S">>, <<"I", "n", "t", "e", "r", "n", "a", "t", "i", "o", "n", "a", "l", " ", "E", "n", "g", "l", "i", "s", "h", " ", "L", "a", "n", "g", "u", "a", "g", "e", " ", "T", "e", "s", "t", "i", "n", "g", " ", "S", "y", "s", "t", "e", "m">>>>
>>

\* \bABBR\b under re.IGNORECASE
AbbrevPattern(abbr) == Cats(<<WordBoundary, LitI(abbr), WordBoundary>>)

abbrev_patterns == [k \in 1..Len(abbreviations) |-> AbbrevPattern(abbreviations[k][1])]

\* for abbrev, full_form in abbreviations.items(): text = re.sub(abbrev, full_form, text)
RECURSIVE ExpandFrom(_, _)
ExpandFrom(text, k) ==
    IF k > Len(abbreviations) \/ text = <<>> THEN text
    ELSE ExpandFrom(Sub(abbrev_patterns[k], abbreviations[k][2], text), k + 1)

expand_abbreviations(text) == ExpandFrom(text, 1)

\* The first three steps: URLs, e-mail addresses and HTML entities removed.
RemoveLinksAndEntities(text) ==
    Sub(entity_pattern, <<>>, Sub(email_pattern, <<>>, Sub(url_pattern, <<>>, text)))

\* A step that deletes the characters outside the whitelist.
StripSpecialCharsDeleting(text) == Sub(special_char_pattern, <<>>, text)

\* The step that replaces the characters outside the whitelist.
StripSpecialChars(text) == Sub(special_char_pattern, <<" ">>, text)

\* [.]{2,}, [!]{2,} and [?]{2,}
dots_pattern == AtLeast({"."}, 2)
bangs_pattern == AtLeast({"!"}, 2)
marks_pattern == AtLeast({"?"}, 2)

CollapsePunctuation(text) ==
    Sub(marks_pattern, <<"?">>, Sub(bangs_pattern, <<"!">>, Sub(dots_pattern, <<".">>, text)))

clean_and_normalize_text(text) ==
    IF text = <<>> THEN <<>>
    ELSE Strip(CollapsePunctuation(
             Sub(whitespace_pattern, <<" ">>,
                 StripSpecialChars(
                     expand_abbreviations(RemoveLinksAndEntities(text))))))

(***************************************************************************)
(* Entity resolver (SmartEntityExtractor, DataProcessor.extract_entities)  *)
(*                                                                         *)
(* Names (canonical names, alias variants, names an external capability    *)
(* returns) are texts.  A result maps each category to a list of names.    *)
(***************************************************************************)
Categories == <<"universities", "majors", "programs">>

\* {'universities': [], 'majors': [], 'programs': []}
NoEntities == [c \in {"universities", "majors", "programs"} |-> <<>>]

\* The entries of the alias tables that the texts of the model can contain: a
\* canonical name and its variants, in the order of the source.
universities_db == <<
    <<<<"M", "I", "T">>,
      <<<<"M", "a", "s", "s", "a", "c", "h", "u", "s", "e", "t", "t", "s", " ", "I", "n", "s", "t", "i", "t", "u", "t", "e", " ", "o", "f", " ", "T", "e", "c", "h", "n", "o", "l", "o", "g", "y">>,
        <<"M", "I", "T">>,
        <<"m", "i", "t">>>>>>,
    <<<<"Y", "a", "l", "e">>,
      <<<<"Y", "a", "l", "e", " ", "U", "n", "i", "v", "e", "r", "s", "i", "t", "y">>,
        <<"Y", "a", "l", "e">>,
        <<"y", "a", "l", "e">>>>>>
    >>

majors_db == <<
    <<<<"M", "a", "c", "h", "i", "n", "e", " ", "L", "e", "a", "r", "n", "i", "n", "g">>,
      <<<<"M", "a", "c", "h", "i", "n", "e", " ", "L", "e", "a", "r", "n", "i", "n", "g">>,
        <<"M", "L">>,
        <<"m", "a", "c", "h", "i", "n", "e", " ", "l", "e", "a", "r", "n", "i", "n", "g">>,
        <<"A", "I">>>>>>,
    <<<<"A", "r", "t", "i", "f", "i", "c", "i", "a", "l", " ", "I", "n", "t", "e", "l", "l", "i", "g", "e", "n", "c", "e">>,
      <<<<"A", "r", "t", "i", "f", "i", "c", "i", "a", "l", " ", "I", "n", "t", "e", "l", "l", "i", "g", "e", "n", "c", "e">>,
        <<"A", "I">>,
        <<"a", "r", "t", "i", "f", "i", "c", "i", "a", "l", " ", "i", "n", "t", "e", "l", "l", "i", "g", "e", "n", "c", "e">>>>>>
    >>

programs_db == <<
    <<<<"P", "h", "D">>,
      <<<<"P", "h", "D">>,
        <<"P", "h", ".", "D", ".">>,
        <<"D", "o", "c", "t", "o", "r", " ", "o", "f", " ", "P", "h", "i", "l", "o", "s", "o", "p", "h", "y">>,
        <<"D", "o", "c", "t", "o", "r", "a", "t", "e">>,
        <<"d", "o", "c", "t", "o", "r", "a", "l">>>>>>,
    <<<<"M", "a", "s", "t", "e", "r">>,
      <<<<"M", "a", "s", "t", "e", "r">>,
        <<"M", "a", "s", "t", "e", "r", "s">>,
        <<"M", "S">>,
        <<"M", "A">>,
        <<"M", "E", "n", "g">>,
        <<"M", "S", "c">>>>>>
    >>

\* variant in text (substring test)
Contains(text, variant) ==
    \E i \in 0..(Len(text) - Len(variant)) :
        \A k \in 1..Len(variant) : text[i + k] = variant[k]

\* The reverse lookup of an alias table as the list of its items
\* <<variant.lower(), canonical>>: a key that is assigned again keeps its place
\* and takes the later canonical name.
CreateReverseLookup(table) ==
    LET items == Flatten([c \in 1..Len(table) |->
                     [v \in 1..Len(table[c][2]) |-> <<LowerStr(table[c][2][v]), table[c][1]>>]])
        first(k) == \A j \in 1..(k - 1) : items[j][1] # items[k][1]
        last(k) == CHOOSE j \in 1..Len(items) :
                       /\ items[j][1] = items[k][1]
                       /\ \A m \in (j + 1)..Len(items) : items[m][1] # items[k][1]
        keys == SelectSeq([k \in 1..Len(items) |-> k], first)
    IN  [n \in 1..Len(keys) |-> <<items[keys[n]][1], items[last(keys[n])][2]>>]

university_lookup == CreateReverseLookup(universities_db)
major_lookup == CreateReverseLookup(majors_db)
program_lookup == CreateReverseLookup(programs_db)

\* dict.get: the list with the value of the key, or the empty list (None).
LookupGet(lookup, key) ==
    LET hit == SelectSeq(lookup, LAMBDA item : item[1] = key)
    IN  [n \in 1..Len(hit) |-> hit[n][2]]

\* _get_canonical_university and _get_canonical_program
GetCanonical(lookup, text) == LookupGet(lookup, Strip(LowerStr(text)))

\* The scan of one reverse lookup by _extract_with_keywords.
ScanLookup(lookup, text_lower) ==
    LET hit == SelectSeq(lookup, LAMBDA item : Contains(text_lower, item[1]))
    IN  [n \in 1..Len(hit) |-> hit[n][2]]

_extract_with_keywords(text) ==
    [universities |-> ScanLookup(university_lookup, LowerStr(text)),
     majors |-> ScanLookup(major_lookup, LowerStr(text)),
     programs |-> ScanLookup(program_lookup, LowerStr(text))]


\* A pattern with one capturing group: the part before the group, the group
\* and the part after it.
Capture(pre, grp, post) == [pre |-> pre, grp |-> grp, post |-> post]

\* The match of a capture pattern that starts at offset p, as
\* <<group start, group end, match end>>, or <<>>: the first in the order of
\* the backtracking matcher.
GroupSpans(start, stops) == [j \in 1..Len(stops) |-> <<start, stops[j]>>]
GroupCands(c, s, starts) ==
    Flatten([m \in 1..Len(starts) |-> GroupSpans(starts[m], Ends(c.grp, s, starts[m]))])
GroupPick(c, s, whole) ==
    IF whole = <<>> THEN <<>>
    ELSE <<whole[1][1], whole[1][2], Ends(c.post, s, whole[1][2])[1]>>
GroupAt(c, s, p) ==
    GroupPick(c, s, SelectSeq(GroupCands(c, s, Ends(c.pre, s, p)),
                              LAMBDA g : Ends(c.post, s, g[2]) # <<>>))

\* The first element of a list of matches, or <<>>.
FirstOf(found) == IF found = <<>> THEN <<>> ELSE found[1]

\* The leftmost match of a capture pattern at or after offset pos.
GroupSearch(c, s, pos) ==
    FirstOf(SelectSeq([k \in 1..(Len(s) + 1 - pos) |-> GroupAt(c, s, pos + k - 1)],
                      LAMBDA g : g # <<>>))

\* re.finditer: group(1) of the successive matches from offset pos on; g is
\* the next match.
RECURSIVE FindGroups(_, _, _)
RECURSIVE GroupsFrom(_, _, _)
GroupsFrom(c, s, g) ==
    IF g = <<>> THEN <<>>
    ELSE <<SubSeq(s, g[1] + 1, g[2])>> \o FindGroups(c, s, g[3])

FindGroups(c, s, pos) ==
    IF pos > Len(s) THEN <<>> ELSE GroupsFrom(c, s, GroupSearch(c, s, pos))

\* [A-Z][a-zA-Z\s]+ under re.IGNORECASE
NamePhrase == Cats(<<Ch(IgnoreCase(UpperSet)), Plus(LetterSet \cup SpaceSet)>>)

\* The university patterns of _extract_with_patterns (re.IGNORECASE):
\*   University of ([A-Z][a-zA-Z\s]+)
\*   ([A-Z][a-zA-Z\s]+) University
\*   ([A-Z]{2,5})\s+(?:university|college)
\*   (?:studying at|admitted to|applying to)\s+([A-Z][a-zA-Z\s]+)
university_patterns == <<
    Capture(LitI(<<"U", "n", "i", "v", "e", "r", "s", "i", "t", "y", " ", "o", "f", " ">>), NamePhrase, Eps),
    Capture(Eps, NamePhrase, LitI(<<" ", "U", "n", "i", "v", "e", "r", "s", "i", "t", "y">>)),
    Capture(Eps, Run(IgnoreCase(UpperSet), 2, 5),
            Cats(<<Plus(SpaceSet),
                   Alt(LitI(<<"u", "n", "i", "v", "e", "r", "s", "i", "t", "y">>),
                       LitI(<<"c", "o", "l", "l", "e", "g", "e">>))>>)),
    Capture(Cats(<<Alt(LitI(<<"s", "t", "u", "d", "y", "i", "n", "g", " ", "a", "t">>),
                       Alt(LitI(<<"a", "d", "m", "i", "t", "t", "e", "d", " ", "t", "o">>),
                           LitI(<<"a", "p", "p", "l", "y", "i", "n", "g", " ", "t", "o">>))),
                   Plus(SpaceSet)>>),
            NamePhrase, Eps) >>

\* \s+(?:in|program) and \s+(?:in|of|program)
InOrProgram == Cats(<<Plus(SpaceSet), Alt(LitI(<<"i", "n">>), LitI(<<"p", "r", "o", "g", "r", "a", "m">>))>>)
InOfOrProgram ==
    Cats(<<Plus(SpaceSet), Alt(LitI(<<"i", "n">>), Alt(LitI(<<"o", "f">>), LitI(<<"p", "r", "o", "g", "r", "a", "m">>)))>>)

\* The program patterns of _extract_with_patterns (re.IGNORECASE):
\*   (PhD|Ph\.D\.|doctorate|doctoral)\s+(?:in|program)
\*   (Master|MS|MA|MEng)\s+(?:in|of|program)
\*   (Bachelor|BS|BA|undergraduate)\s+(?:in|of|program)
\*   applying for\s+(PhD|Master|Bachelor)
program_patterns == <<
    Capture(Eps,
            Alt(LitI(<<"P", "h", "D">>), Alt(LitI(<<"P", "h", ".", "D", ".">>),
                Alt(LitI(<<"d", "o", "c", "t", "o", "r", "a", "t", "e">>), LitI(<<"d", "o", "c", "t", "o", "r", "a", "l">>)))),
            InOrProgram),
    Capture(Eps,
            Alt(LitI(<<"M", "a", "s", "t", "e", "r">>), Alt(LitI(<<"M", "S">>), Alt(LitI(<<"M", "A">>), LitI(<<"M", "E", "n", "g">>)))),
            InOfOrProgram),
    Capture(Eps,
            Alt(LitI(<<"B", "a", "c", "h", "e", "l", "o", "r">>), Alt(LitI(<<"B", "S">>), Alt(LitI(<<"B", "A">>),
                LitI(<<"u", "n", "d", "e", "r", "g", "r", "a", "d", "u", "a", "t", "e">>)))),
            InOfOrProgram),
    Capture(Cats(<<LitI(<<"a", "p", "p", "l", "y", "i", "n", "g", " ", "f", "o", "r">>), Plus(SpaceSet)>>),
            Alt(LitI(<<"P", "h", "D">>), Alt(LitI(<<"M", "a", "s", "t", "e", "r">>), LitI(<<"B", "a", "c", "h", "e", "l", "o", "r">>))),
            Eps) >>

\* The canonical names of the groups that the patterns of ps capture in text,
\* pattern by pattern and match by match; a group without a canonical name
\* gives nothing.
Canonicals(lookup, groups) ==
    Flatten([k \in 1..Len(groups) |-> GetCanonical(lookup, groups[k])])
CanonicalMatches(ps, lookup, text) ==
    Canonicals(lookup, Flatten([k \in 1..Len(ps) |-> FindGroups(ps[k], text, 0)]))

_extract_with_patterns(text) ==
    [universities |-> CanonicalMatches(university_patterns, university_lookup, text),
     majors |-> <<>>,
     programs |-> CanonicalMatches(program_patterns, program_lookup, text)]


\* _is_university: the indicators of a university name
university_indicators == <<
    <<"u", "n", "i", "v", "e", "r", "s", "i", "t", "y">>,
    <<"c", "o", "l", "l", "e", "g", "e">>,
    <<"i", "n", "s", "t", "i", "t", "u", "t", "e">>,
    <<"s", "c", "h", "o", "o", "l">>,
    <<"t", "e", "c", "h">>,
    <<"p", "o", "l", "y", "t", "e", "c", "h", "n", "i", "c">>,
    <<"a", "c", "a", "d", "e", "m", "y">> >>

_is_university(text) ==
    \E k \in 1..Len(university_indicators) : Contains(LowerStr(text), university_indicators[k])

\* _extract_program_from_context: <<indicator, canonical>>
program_indicators == <<
    <<<<"p", "h", "d">>, <<"P", "h", "D">>>>,
    <<<<"p", "h", ".", "d", ".">>, <<"P", "h", "D">>>>,
    <<<<"d", "o", "c", "t", "o", "r", "a", "t", "e">>, <<"P", "h", "D">>>>,
    <<<<"d", "o", "c", "t", "o", "r", "a", "l">>, <<"P", "h", "D">>>>,
    <<<<"m", "a", "s", "t", "e", "r">>, <<"M", "a", "s", "t", "e", "r">>>>,
    <<<<"m", "a", "s", "t", "e", "r", "s">>, <<"M", "a", "s", "t", "e", "r">>>>,
    <<<<"m", "s", " ">>, <<"M", "a", "s", "t", "e", "r">>>>,
    <<<<"m", "a", " ">>, <<"M", "a", "s", "t", "e", "r">>>>,
    <<<<"m", "e", "n", "g">>, <<"M", "a", "s", "t", "e", "r">>>>,
    <<<<"m", "s", "c">>, <<"M", "a", "s", "t", "e", "r">>>>,
    <<<<"b", "a", "c", "h", "e", "l", "o", "r">>, <<"B", "a", "c", "h", "e", "l", "o", "r">>>>,
    <<<<"b", "a", "c", "h", "e", "l", "o", "r", "s">>, <<"B", "a", "c", "h", "e", "l", "o", "r">>>>,
    <<<<"b", "s", " ">>, <<"B", "a", "c", "h", "e", "l", "o", "r">>>>,
    <<<<"b", "a", " ">>, <<"B", "a", "c", "h", "e", "l", "o", "r">>>>,
    <<<<"b", "s", "c">>, <<"B", "a", "c", "h", "e", "l", "o", "r">>>>,
    <<<<"u", "n", "d", "e", "r", "g", "r", "a", "d", "u", "a", "t", "e">>, <<"B", "a", "c", "h", "e", "l", "o", "r">>>>,
    <<<<"m", "b", "a">>, <<"M", "B", "A">>>>,
    <<<<"j", "d">>, <<"J", "D">>>>,
    <<<<"m", "d">>, <<"M", "D">>>>,
    <<<<"p", "o", "s", "t", "d", "o", "c">>, <<"P", "o", "s", "t", "d", "o", "c">>>> >>

\* The list with the program of the first indicator the context contains, or
\* the empty list (None).
_extract_program_from_context(context) ==
    LET hit == SelectSeq(program_indicators, LAMBDA ind : Contains(LowerStr(context), ind[1]))
    IN  IF hit = <<>> THEN <<>> ELSE <<hit[1][2]>>

\* text[max(0, a):b]
Slice(text, a, b) ==
    SubSeq(text, (IF a < 0 THEN 0 ELSE a) + 1, IF b > Len(text) THEN Len(text) ELSE b)

\* What _extract_with_spacy appends for one entity of the document
\* [label, start_char, end_char].
SpacyUniversities(text, ent) ==
    IF /\ ent.label \in {"ORG", "GPE"}
       /\ _is_university(Slice(text, ent.start_char, ent.end_char))
    THEN GetCanonical(university_lookup, Slice(text, ent.start_char, ent.end_char))
    ELSE <<>>

SpacyPrograms(text, ent) ==
    IF ent.label \in {"PERSON", "ORG"}
    THEN _extract_program_from_context(Slice(text, ent.start_char - 50, ent.end_char + 50))
    ELSE <<>>

\* What the NER model gives for a text: the call raises, or it returns a
\* document with a list of entities.
NerRaises == [kind |-> "raises", ents |-> <<>>]
NerDoc(ents) == [kind |-> "doc", ents |-> ents]

\* The loop of _extract_with_spacy over the entities of the document,
\* appended[ent] being what it appends for the entity ent; an exception of
\* the model is caught.
SpacyCollected(appended, doc) ==
    IF doc.kind = "raises" THEN NoEntities
    ELSE [universities |-> Flatten([k \in 1..Len(doc.ents) |-> appended[doc.ents[k]].universities]),
          majors |-> <<>>,
          programs |-> Flatten([k \in 1..Len(doc.ents) |-> appended[doc.ents[k]].programs])]

SpacyAppended(text, ent) ==
    [universities |-> SpacyUniversities(text, ent), programs |-> SpacyPrograms(text, ent)]

_extract_with_spacy(text, doc) ==
    SpacyCollected([ent \in SeqToSet(doc.ents) |-> SpacyAppended(text, ent)], doc)

\* _extract_with_semantics: a placeholder that extracts nothing
_extract_with_semantics(text) == NoEntities

\* A value of the JSON object an LLM returns for a key: a list of names, a
\* string, or null.
JList(names) == [json |-> "list", v |-> names]
JString(chars) == [json |-> "string", v |-> chars]
JNull == [json |-> "null", v |-> <<>>]

\* What the LLM gives: "raises" (the library is missing or the request
\* fails), "no_json" (the answer does not parse), "no_object" (the answer is
\* JSON but not an object), or "object" with the parsed object, a function
\* from some keys to values.
LlmFails(kind) == [kind |-> kind, fields |-> <<>>]
LlmObject(fields) == [kind |-> "object", fields |-> fields]

\* _extract_with_openai and _extract_with_anthropic: entities.update(result)
\* puts the values of the object in place of the empty lists.
_extract_with_provider(llm, response) ==
    IF ~llm.api_key \/ response.kind # "object"
    THEN [c \in DOMAIN NoEntities |-> JList(<<>>)]
    ELSE [c \in DOMAIN NoEntities \cup DOMAIN response.fields |->
            IF c \in DOMAIN response.fields THEN response.fields[c] ELSE JList(<<>>)]

\* _extract_with_llm
_extract_with_llm(llm, response) ==
    IF ~llm.enabled \/ llm.provider \notin {"openai", "anthropic"}
    THEN [c \in DOMAIN NoEntities |-> JList(<<>>)]
    ELSE _extract_with_provider(llm, response)

\* The result of a strategy of the extractor itself as JSON-like values.
AsLists(entities) == [c \in DOMAIN entities |-> JList(entities[c])]

\* list.extend(value): a string extends the list by its characters; None is
\* not iterable (TypeError).
CanExtend(value) == value.json # "null"
Extension(value) ==
    IF value.json = "string" THEN [k \in 1..Len(value.v) |-> <<value.v[k]>>] ELSE value.v

\* _merge_entities(target, source): TRUE when an extend raises.
MergeRaises(target, source) ==
    \E c \in DOMAIN target : c \in DOMAIN source /\ ~CanExtend(source[c])

\* A merge that assigns the list of the source instead of extending the
\* list of the target.
MergeReplacing(target, source) ==
    [c \in DOMAIN target |->
        IF c \in DOMAIN source THEN Extension(source[c]) ELSE target[c]]

_merge_entities(target, source) ==
    [c \in DOMAIN target |->
        IF c \in DOMAIN source THEN target[c] \o Extension(source[c]) ELSE target[c]]

\* _clean_entities: the first occurrence of every non-empty value, in order.
CleanValues(values) ==
    LET keep == SelectSeq([k \in 1..Len(values) |-> k],
                          LAMBDA k : values[k] # <<>> /\ \A j \in 1..(k - 1) : values[j] # values[k])
    IN  [n \in 1..Len(keep) |-> values[keep[n]]]

_clean_entities(entities) == [c \in DOMAIN entities |-> CleanValues(entities[c])]


\* The strategies that extract_entities_smart runs: every one is gated by
\* the configured methods, the NER and the embedding strategy also by their
\* model.
Runs(cfg) ==
    {m \in cfg.methods :
        /\ m \in {"spacy", "keyword", "pattern", "semantic", "llm"}
        /\ m = "spacy" => cfg.spacy_nlp
        /\ m = "semantic" => cfg.sentence_transformer}

\* The order in which extract_entities_smart runs and merges the strategies.
StrategyOrder == <<"spacy", "keyword", "pattern", "semantic", "llm">>

\* The outputs of the strategies that run, in the order they run; given maps
\* a strategy to what it returns when it is called.
OutputsInOrder(cfg, given) ==
    LET ran == SelectSeq(StrategyOrder, LAMBDA m : m \in Runs(cfg))
    IN  [k \in 1..Len(ran) |-> given[ran[k]]]

\* The entities after the outputs outs[1..n] are merged into the empty result.
RECURSIVE MergeAll(_, _)
MergeAll(outs, n) ==
    IF n = 0 THEN NoEntities ELSE _merge_entities(MergeAll(outs, n - 1), outs[n])

\* extract_entities_smart on the outputs of its strategies: it raises when a
\* merge raises (nothing in the method catches it), else it returns the
\* cleaned result.
SmartResult(outs) ==
    IF \E k \in 1..Len(outs) : MergeRaises(NoEntities, outs[k])
    THEN [raised |-> TRUE, entities |-> NoEntities]
    ELSE [raised |-> FALSE, entities |-> _clean_entities(MergeAll(outs, Len(outs)))]

extract_entities_smart(cfg, given) == SmartResult(OutputsInOrder(cfg, given))

\* config['keywords'] of the DataProcessor (the configuration of the tests)
university_keywords == {<<"M", "I", "T">>, <<"S", "t", "a", "n", "f", "o", "r", "d">>, <<"H", "a", "r", "v", "a", "r", "d">>, <<"C", "M", "U">>}
major_keywords == {<<"C", "o", "m", "p", "u", "t", "e", "r", " ", "S", "c", "i", "e", "n", "c", "e">>, <<"E", "n", "g", "i", "n", "e", "e", "r", "i", "n", "g">>, <<"M", "e", "d", "i", "c", "i", "n", "e">>}
program_keywords == {<<"P", "h", "D">>, <<"M", "a", "s", "t", "e", "r">>, <<"B", "S">>, <<"M", "S">>}

InstitutionWord ==
    Alt(LitI(<<"U", "n", "i", "v", "e", "r", "s", "i", "t", "y">>), Alt(LitI(<<"I", "n", "s", "t", "i", "t", "u", "t", "e">>), LitI(<<"C", "o", "l", "l", "e", "g", "e">>)))

\* The university patterns of _extract_entities_keyword (re.IGNORECASE):
\*   \b([A-Z][a-z]+ (?:University|Institute|College))\b
\*   \b(University of [A-Z][a-z]+(?:\s+[A-Z][a-z]+)*)\b
\*   \b([A-Z]{2,5})\b(?=.*(?:university|college|institute))
fallback_university_patterns == <<
    Capture(WordBoundary,
            Cats(<<Ch(LetterSet), Plus(LetterSet), Ch({" "}), InstitutionWord>>),
            WordBoundary),
    Capture(WordBoundary,
            Cats(<<LitI(<<"U", "n", "i", "v", "e", "r", "s", "i", "t", "y", " ", "o", "f", " ">>), Ch(LetterSet), Plus(LetterSet),
                   Repeat(Cats(<<Plus(SpaceSet), Ch(LetterSet), Plus(LetterSet)>>))>>),
            WordBoundary),
    Capture(WordBoundary,
            Run(LetterSet, 2, 5),
            Cats(<<WordBoundary,
                   LookAhead(Cats(<<Star(Alphabet \ {"\n"}),
                                    Alt(LitI(<<"u", "n", "i", "v", "e", "r", "s", "i", "t", "y">>), Alt(LitI(<<"c", "o", "l", "l", "e", "g", "e">>), LitI(<<"i", "n", "s", "t", "i", "t", "u", "t", "e">>)))>>))>>)) >>

\* The keywords of a configured set that the text contains.
KeywordsIn(keywords, text) == {w \in keywords : Contains(LowerStr(text), LowerStr(w))}

\* The stripped, non-empty items of a list, as a set.
StrippedItems(items) == {Strip(items[k]) : k \in 1..Len(items)} \ {<<>>}

\* _extract_entities_keyword: the set of names of every category (the order
\* of list(set(...)) is not determined).
_extract_entities_keyword(text) ==
    [universities |->
        {Strip(w) : w \in KeywordsIn(university_keywords, text)} \cup
        StrippedItems(Flatten([k \in 1..Len(fallback_university_patterns) |->
                                 FindGroups(fallback_university_patterns[k], text, 0)])),
     majors |-> {Strip(w) : w \in KeywordsIn(major_keywords, text)},
     programs |-> {Strip(w) : w \in KeywordsIn(program_keywords, text)}]


(***************************************************************************)
(* The normalizer as a state machine: a text is cleaned, and the cleaned   *)
(* text is cleaned again (process_all_posts re-running on stored content). *)
(***************************************************************************)
\* The number of fragments an input text is made of.
MaxFrags == 3

\* Fragments of raw text: a URL scheme, the halves of a URL that an entity
\* escape splits, an entity escape, an e-mail address, the letters of an
\* abbreviation, a character outside the whitelist, punctuation, whitespace.
NormFragments == {
    <<"h", "t", "t", "p", ":", "/", "/">>,
    <<"h", "t">>,
    <<"t", "p", ":", "/", "/", "a">>,
    <<"&", "x", ";">>,
    <<"a", "@", "b", ".", "c", "o">>,
    <<"C">>,
    <<"s">>,
    <<"#">>,
    <<".">>,
    <<" ">> }

RECURSIVE TextsOf(_, _)
TextsOf(frags, n) ==
    IF n = 0 THEN {<<>>}
    ELSE LET shorter == TextsOf(frags, n - 1)
         IN  shorter \cup {f \o t : f \in frags, t \in shorter}

NormInputs == TextsOf(NormFragments, MaxFrags)

InitNorm ==
    /\ n_pc = "start"
    /\ n_text \in NormInputs
    /\ n_mid = <<>>
    /\ n_out = <<>>
    /\ n_out2 = <<>>
    /\ ResolverIdle /\ SimilarityIdle /\ DetectorIdle /\ LabelerIdle /\ AnalyzerIdle /\ StoreIdle

\* clean_and_normalize_text(text) on the raw text
NormalizeRaw ==
    /\ n_pc = "start"
    /\ n_pc' = "once"
    /\ n_mid' = RemoveLinksAndEntities(n_text)
    /\ n_out' = clean_and_normalize_text(n_text)
    /\ UNCHANGED <<n_text, n_out2>>
    /\ UNCHANGED outsideNorm

\* clean_and_normalize_text(text) on the text it returned
NormalizeAgain ==
    /\ n_pc = "once"
    /\ n_pc' = "twice"
    /\ n_out2' = clean_and_normalize_text(n_out)
    /\ UNCHANGED <<n_text, n_mid, n_out>>
    /\ UNCHANGED outsideNorm

NextNorm == NormalizeRaw \/ NormalizeAgain

SpecNorm == InitNorm /\ [][NextNorm]_vars

\* C1: normalization is idempotent: cleaning the text that a pass returned
\* returns that text unchanged.
C1_Idempotent == n_pc = "twice" => n_out2 = n_out

\* A text that the first pass changed, with something left of it, has been
\* cleaned twice.
C1_Witness == n_pc = "twice" /\ n_out # n_text /\ n_out # <<>>

\* C2: the text a pass returns contains no URL-shaped and no e-mail-shaped
\* substring, whatever the later steps of the pass did to the text.
C2_NoLinksLeft ==
    /\ n_pc \in {"once", "twice"} =>
            ~Matches(url_pattern, n_out) /\ ~Matches(email_pattern, n_out)
    /\ n_pc = "twice" =>
            ~Matches(url_pattern, n_out2) /\ ~Matches(email_pattern, n_out2)

\* Removing an entity escape joined the halves of a URL: the text holds a
\* URL-shaped substring after the removal steps of the pass.
C2_Witness == n_pc = "once" /\ Matches(url_pattern, n_mid) /\ n_out # <<>>

(***************************************************************************)
(* The entity resolver as a state machine: a DataProcessor is constructed  *)
(* from a configuration (DataProcessor.__init__), then extract_entities is *)
(* called on a text.                                                       *)
(***************************************************************************)
\* The number of fragments a text given to the resolver is made of.
MaxWords == 2

\* Fragments of text: alias variants in mixed case, a program phrase, an
\* institution word.
ResolverFragments == {
    <<"y", "A", "l", "e">>,
    <<"A", "I">>,
    <<"P", "h", "D", " ", "i", "n">>,
    <<" ", "U", "n", "i", "v", "e", "r", "s", "i", "t", "y">> }

ResolverTexts == TextsOf(ResolverFragments, MaxWords)

\* smart_extraction.llm of the configuration
LlmOff == [enabled |-> FALSE, provider |-> "openai", api_key |-> FALSE]
LlmConfigs == {
    LlmOff,
    [enabled |-> TRUE, provider |-> "openai", api_key |-> FALSE],
    [enabled |-> TRUE, provider |-> "openai", api_key |-> TRUE],
    [enabled |-> TRUE, provider |-> "anthropic", api_key |-> TRUE],
    [enabled |-> TRUE, provider |-> "other", api_key |-> TRUE] }

\* smart_extraction of the configuration: enabled, methods and llm.  The
\* methods and the llm settings of a disabled extractor are never read.
ResolverConfigs ==
    {[enabled |-> FALSE, methods |-> {"spacy", "keyword", "pattern"}, llm |-> LlmOff]} \cup
    {[enabled |-> TRUE, methods |-> ms, llm |-> l] :
        ms \in SUBSET {"spacy", "keyword", "pattern", "semantic", "llm"},
        l \in LlmConfigs}

\* The spans of a text that start and end at the edge of a word, as
\* <<start_char, end_char>>.
WordSpans(text) ==
    {<<a, b>> \in (0..Len(text)) \X (0..Len(text)) :
        /\ a < b
        /\ text[a + 1] \notin SpaceSet /\ (a = 0 \/ text[a] \in SpaceSet)
        /\ text[b] \notin SpaceSet /\ (b = Len(text) \/ text[b + 1] \in SpaceSet)}

\* The number of entities in a document of the NER model.
MaxEnts == 1

\* What the NER model can give for a text: it raises, or it returns a
\* document of at most MaxEnts labelled entities.
NerEnts(text) ==
    {[label |-> l, start_char |-> sp[1], end_char |-> sp[2]] :
        l \in {"ORG", "GPE", "PERSON"}, sp \in WordSpans(text)}

RECURSIVE EntLists(_, _)
EntLists(ents, n) ==
    IF n = 0 THEN {<<>>}
    ELSE LET shorter == EntLists(ents, n - 1)
         IN  shorter \cup {<<e>> \o q : e \in ents, q \in shorter}

NerDocs(text) == {NerRaises} \cup {NerDoc(q) : q \in EntLists(NerEnts(text), MaxEnts)}

\* What the LLM can give.
LlmResponses == {
    LlmFails("raises"),
    LlmFails("no_json"),
    LlmFails("no_object"),
    LlmObject([universities |-> JList(<<<<"Y", "a", "l", "e">>>>)]),
    LlmObject([universities |-> JList(<<<<"M", "I", "T">>, <<"M", "I", "T">>>>),
               majors |-> JList(<<<<>>, <<"M", "a", "c", "h", "i", "n", "e", " ", "L", "e", "a", "r", "n", "i", "n", "g">>>>)]),
    LlmObject([universities |-> JNull]),
    LlmObject([programs |-> JString(<<"P", "h", "D">>)]) }

\* The orders that list(set(...)) can give the names of a set.
ListsOf(S) ==
    {q \in [1..Cardinality(S) -> S] : \A j, k \in 1..Cardinality(S) : j # k => q[j] # q[k]}

\* The values _extract_entities_keyword can return.
FallbackResults(text) ==
    [universities : ListsOf(_extract_entities_keyword(text).universities),
     majors : ListsOf(_extract_entities_keyword(text).majors),
     programs : ListsOf(_extract_entities_keyword(text).programs)]

NotCalled == [called |-> FALSE, raised |-> FALSE, entities |-> NoEntities]

InitResolver ==
    /\ r_pc = "new"
    /\ r_text \in ResolverTexts
    /\ r_cfg \in ResolverConfigs
    /\ r_models = [extractor |-> FALSE, spacy_nlp |-> FALSE, sentence_transformer |-> FALSE]
    /\ r_outs = <<>>
    /\ r_smart = NotCalled
    /\ r_result = NoEntities
    /\ NormIdle /\ SimilarityIdle /\ DetectorIdle /\ LabelerIdle /\ AnalyzerIdle /\ StoreIdle

\* DataProcessor.__init__: the smart extractor is built when it is enabled;
\* _initialize_models loads the model of a configured method when it is
\* installed; an exception of the constructor leaves smart_extractor None.
Construct ==
    /\ r_pc = "new"
    /\ r_pc' = "ready"
    /\ \E built \in (IF r_cfg.enabled THEN BOOLEAN ELSE {FALSE}),
          nlp \in (IF "spacy" \in r_cfg.methods THEN BOOLEAN ELSE {FALSE}),
          st \in (IF "semantic" \in r_cfg.methods THEN BOOLEAN ELSE {FALSE}) :
            r_models' = [extractor |-> built,
                         spacy_nlp |-> built /\ nlp,
                         sentence_transformer |-> built /\ st]
    /\ UNCHANGED <<r_text, r_cfg, r_outs, r_smart, r_result>>
    /\ UNCHANGED outsideResolver

\* The configuration and the loaded models that extract_entities_smart reads.
Loaded ==
    [methods |-> r_cfg.methods, llm |-> r_cfg.llm,
     spacy_nlp |-> r_models.spacy_nlp, sentence_transformer |-> r_models.sentence_transformer]

\* What the strategies return for every text of the model: the outputs of
\* _extract_with_keywords and _extract_with_patterns, the outputs that
\* _extract_with_spacy can give over the documents of the NER model, and the
\* values _extract_entities_keyword can return.
KeywordOutputs == [t \in ResolverTexts |-> AsLists(_extract_with_keywords(t))]
PatternOutputs == [t \in ResolverTexts |-> AsLists(_extract_with_patterns(t))]
SpacyAppendedOf == [t \in ResolverTexts |-> [ent \in NerEnts(t) |-> SpacyAppended(t, ent)]]
SpacyOutputs ==
    [t \in ResolverTexts |->
        {AsLists(SpacyCollected(SpacyAppendedOf[t], doc)) : doc \in NerDocs(t)}]
Fallbacks == [t \in ResolverTexts |-> FallbackResults(t)]

\* What _extract_with_llm can return, over the answers the LLM can give.
LlmOutputs(llm) == {_extract_with_llm(llm, response) : response \in LlmResponses}

\* DataProcessor.extract_entities(text): the result of extract_entities_smart
\* when there is a smart extractor and it returns; else (no extractor, or it
\* raised) the result of _extract_entities_keyword.
ExtractEntities ==
    /\ r_pc = "ready"
    /\ r_pc' = "done"
    /\ IF r_models.extractor
       THEN \E spacy \in (IF "spacy" \in Runs(Loaded) THEN SpacyOutputs[r_text]
                           ELSE {AsLists(NoEntities)}),
               llm \in (IF "llm" \in Runs(Loaded) THEN LlmOutputs(r_cfg.llm)
                        ELSE {AsLists(NoEntities)}) :
               LET ran == SelectSeq(StrategyOrder, LAMBDA m : m \in Runs(Loaded))
                   given == [spacy |-> spacy,
                             keyword |-> KeywordOutputs[r_text],
                             pattern |-> PatternOutputs[r_text],
                             semantic |-> AsLists(_extract_with_semantics(r_text)),
                             llm |-> llm]
                   smart == extract_entities_smart(Loaded, given)
               IN  /\ r_outs' = [k \in 1..Len(ran) |-> [m |-> ran[k], out |-> given[ran[k]]]]
                   /\ r_smart' = [called |-> TRUE, raised |-> smart.raised,
                                  entities |-> smart.entities]
                   /\ IF smart.raised
                      THEN r_result' \in Fallbacks[r_text]
                      ELSE r_result' = smart.entities
       ELSE /\ r_result' \in Fallbacks[r_text]
            /\ UNCHANGED <<r_outs, r_smart>>
    /\ UNCHANGED <<r_text, r_cfg, r_models>>
    /\ UNCHANGED outsideResolver

NextResolver == Construct \/ ExtractEntities

SpecResolver == InitResolver /\ [][NextResolver]_vars

\* The names of a list, and how often a name occurs in it.
AsSet(q) == {q[k] : k \in 1..Len(q)}
Count(q, name) == Cardinality({k \in 1..Len(q) : q[k] = name})

\* The alias table of a category.
AliasTable(c) ==
    CASE c = "universities" -> universities_db
      [] c = "majors" -> majors_db
      [] c = "programs" -> programs_db

\* The canonical names of category c with a variant that the text contains in
\* some letter case.
Mentioned(c, text) ==
    {AliasTable(c)[e][1] : e \in
        {e \in 1..Len(AliasTable(c)) :
            \E v \in 1..Len(AliasTable(c)[e][2]) :
                Contains(LowerStr(text), LowerStr(AliasTable(c)[e][2][v]))}}

MentionedNames == [t \in ResolverTexts |-> [c \in DOMAIN NoEntities |-> Mentioned(c, t)]]

\* C3: whenever the resolver is given a text that contains an alias variant
\* of a canonical name in any letter case, whatever strategies are configured,
\* the result the resolver returns holds that canonical name exactly once in
\* the category.
C3_Recall ==
    (r_pc = "done" /\ r_smart.called /\ ~r_smart.raised) =>
        \A c \in DOMAIN NoEntities : \A name \in MentionedNames[r_text][c] :
            Count(r_smart.entities[c], name) = 1

\* C4: on every call of the resolver, for every configured methods list and
\* every availability of the optional capabilities, the alias-table scan is
\* executed and its matches are part of the result.
C4_AliasScanAlwaysRuns ==
    (r_pc = "done" /\ r_smart.called) =>
        /\ \E k \in 1..Len(r_outs) : r_outs[k].m = "keyword"
        /\ \A c \in DOMAIN NoEntities :
               AsSet(KeywordOutputs[r_text][c].v) \subseteq AsSet(r_result[c])

\* A strategy output in the shape of the contract: every value is a list.
WellFormed(out) == \A c \in DOMAIN out : out[c].json = "list"

\* The names a strategy contributes to category c: none when its output is
\* malformed.
Contribution(out, c) == IF WellFormed(out) THEN AsSet(out[c].v) \ {<<>>} ELSE {}

\* C5: a strategy that is unavailable, raises or returns a malformed result
\* contributes nothing, the result is the union of what the other strategies
\* of the configuration return, and no exception reaches the caller.
C5_FailOpen ==
    (r_pc = "done" /\ r_smart.called) =>
        /\ ~r_smart.raised
        /\ \A c \in DOMAIN NoEntities :
               AsSet(r_result[c]) = UNION {Contribution(r_outs[k].out, c) : k \in 1..Len(r_outs)}

\* The names that iterating a returned value gives.
NamesOf(value) ==
    IF value.json = "string" THEN {<<value.v[k]>> : k \in 1..Len(value.v)} ELSE AsSet(value.v)

\* The outputs of the strategies that ran, in the order given by the
\* permutation p of their indices.
Reordered(p) == [k \in 1..Len(r_outs) |-> r_outs[p[k]].out]

\* C6: the merged result is, per category, the union of the names the
\* strategies returned, with every name once; as a set it is the same for
\* every order in which the outputs are merged, and merging every output a
\* second time changes nothing.
C6_MergeIsUnion ==
    (r_pc = "done" /\ r_smart.called /\ ~r_smart.raised) =>
        \A c \in DOMAIN NoEntities :
            /\ AsSet(r_smart.entities[c]) =
                   UNION {NamesOf(r_outs[k].out[c]) : k \in 1..Len(r_outs)} \ {<<>>}
            /\ \A name \in AsSet(r_smart.entities[c]) : Count(r_smart.entities[c], name) = 1
            /\ \A p \in ListsOf(1..Len(r_outs)) :
                   AsSet(SmartResult(Reordered(p)).entities[c]) = AsSet(r_smart.entities[c])
            /\ AsSet(SmartResult(Reordered([k \in 1..Len(r_outs) |-> k])
                                 \o Reordered([k \in 1..Len(r_outs) |-> k])).entities[c])
                   = AsSet(r_smart.entities[c])

\* Four strategies ran, two of them returned the same university and the LLM
\* returned a university that no other strategy returned.
C6_Witness ==
    /\ r_pc = "done" /\ r_smart.called /\ ~r_smart.raised
    /\ Len(r_outs) >= 4
    /\ \E j, k \in 1..Len(r_outs) :
          /\ j < k
          /\ NamesOf(r_outs[j].out.universities) \cap NamesOf(r_outs[k].out.universities) # {}
    /\ \E k \in 1..Len(r_outs) :
          /\ r_outs[k].m = "llm"
          /\ \E name \in NamesOf(r_outs[k].out.universities) :
                \A j \in 1..(k - 1) : name \notin NamesOf(r_outs[j].out.universities)

(***************************************************************************)
(* Similarity: DataProcessor.calculate_text_similarity, that is            *)
(* difflib.SequenceMatcher(None, a, b).ratio() on the lower-cased texts.   *)
(* Offsets are those of Python: a[i] is the character i + 1 of a, and a    *)
(* range alo..ahi excludes ahi.                                            *)
(***************************************************************************)
Min(x, y) == IF x <= y THEN x ELSE y

\* SequenceMatcher.__chain_b with autojunk: in a sequence b of 200 elements
\* or more, the elements that occur more than len(b) // 100 + 1 times are
\* left out of the index b2j.
Popular(b) ==
    IF Len(b) >= 200
    THEN {c \in SeqToSet(b) : Cardinality({k \in 1..Len(b) : b[k] = c}) > (Len(b) \div 100) + 1}
    ELSE {}

\* a[i] == b[j]
SameAt(a, b, i, j) == a[i + 1] = b[j + 1]
\* a[i] == b[j] and j is in b2j[a[i]]
Indexed(a, b, i, j) == a[i + 1] = b[j + 1] /\ b[j + 1] \notin Popular(b)

\* The places within a[alo:ahi] and b[blo:bhi] at which a run of indexed
\* equal elements begins.
RunStarts(a, b, alo, ahi, blo, bhi) ==
    {p \in (alo..(ahi - 1)) \X (blo..(bhi - 1)) :
        /\ Indexed(a, b, p[1], p[2])
        /\ ~(p[1] > alo /\ p[2] > blo /\ Indexed(a, b, p[1] - 1, p[2] - 1))}

\* The length of the run of indexed equal elements that begins at (i, j).
RunLength(a, b, i, j, ahi, bhi) ==
    Cardinality({k \in 1..Min(ahi - i, bhi - j) :
                    \A m \in 0..(k - 1) : Indexed(a, b, i + m, j + m)})

\* The block <<i, j, size>> that the scan of find_longest_match keeps: the
\* longest run, of the longest the one that starts earliest in a, and of
\* those the one that starts earliest in b; <<alo, blo, 0>> without a run.
LongestRun(runs, alo, blo) ==
    IF runs = {} THEN <<alo, blo, 0>>
    ELSE CHOOSE r \in runs : \A q \in runs :
            \/ r[3] > q[3]
            \/ r[3] = q[3] /\ r[1] < q[1]
            \/ r[3] = q[3] /\ r[1] = q[1] /\ r[2] <= q[2]

\* find_longest_match extends the block by the equal elements before and
\* after it (no element is junk, isjunk being None).
ExtendBlock(a, b, alo, ahi, blo, bhi, m) ==
    LET back == Cardinality({k \in 1..Min(m[1] - alo, m[2] - blo) :
                    \A n \in 1..k : SameAt(a, b, m[1] - n, m[2] - n)})
        fwd == Cardinality({k \in 1..Min(ahi - m[1] - m[3], bhi - m[2] - m[3]) :
                    \A n \in 0..(k - 1) : SameAt(a, b, m[1] + m[3] + n, m[2] + m[3] + n)})
    IN  <<m[1] - back, m[2] - back, m[3] + back + fwd>>

\* SequenceMatcher.find_longest_match(alo, ahi, blo, bhi)
find_longest_match(a, b, alo, ahi, blo, bhi) ==
    ExtendBlock(a, b, alo, ahi, blo, bhi,
        LongestRun({<<p[1], p[2], RunLength(a, b, p[1], p[2], ahi, bhi)>> :
                        p \in RunStarts(a, b, alo, ahi, blo, bhi)}, alo, blo))

\* SequenceMatcher.get_matching_blocks: the sum of the sizes of the blocks
\* found in a[alo:ahi] and b[blo:bhi]: the longest match m, then the blocks
\* to the left of it and those to the right of it.
RECURSIVE MatchedIn(_, _, _, _, _, _)
RECURSIVE MatchedAround(_, _, _, _, _, _, _)
MatchedAround(a, b, alo, ahi, blo, bhi, m) ==
    IF m[3] = 0 THEN 0
    ELSE m[3]
         + (IF alo < m[1] /\ blo < m[2] THEN MatchedIn(a, b, alo, m[1], blo, m[2]) ELSE 0)
         + (IF m[1] + m[3] < ahi /\ m[2] + m[3] < bhi
            THEN MatchedIn(a, b, m[1] + m[3], ahi, m[2] + m[3], bhi) ELSE 0)

MatchedIn(a, b, alo, ahi, blo, bhi) ==
    MatchedAround(a, b, alo, ahi, blo, bhi, find_longest_match(a, b, alo, ahi, blo, bhi))

\* difflib._calculate_ratio: 2.0 * matches / length, 1.0 for length 0; the
\* quotient is kept as <<numerator, denominator>>.
_calculate_ratio(matches, length) == IF length > 0 THEN <<2 * matches, length>> ELSE <<1, 1>>

\* SequenceMatcher(None, a, b).ratio()
ratio(a, b) == _calculate_ratio(MatchedIn(a, b, 0, Len(a), 0, Len(b)), Len(a) + Len(b))

\* A similarity that compares the texts as they are.
SimilarityOfRawTexts(text1, text2) == ratio(text1, text2)

\* DataProcessor.calculate_text_similarity
calculate_text_similarity(text1, text2) == ratio(LowerStr(text1), LowerStr(text2))

\* similarity >= threshold, the threshold in hundredths
AtLeastPercent(sim, percent) == sim[1] * 100 >= percent * sim[2]

(***************************************************************************)
(* The similarity as a state machine: two texts are compared.              *)
(***************************************************************************)
\* The length of the texts that are compared.
MaxSimLen == 3

SimAlphabet == {"a", "A", CapitalSigma, SmallSigma}

RECURSIVE SimTexts(_)
SimTexts(n) ==
    IF n = 0 THEN {<<>>}
    ELSE SimTexts(n - 1) \cup {Append(t, c) : t \in SimTexts(n - 1), c \in SimAlphabet}

InitSimilarity ==
    /\ s_pc = "start"
    /\ s_text1 \in SimTexts(MaxSimLen)
    /\ s_text2 \in SimTexts(MaxSimLen)
    /\ s_ratio = <<>>
    /\ NormIdle /\ ResolverIdle /\ DetectorIdle /\ LabelerIdle /\ AnalyzerIdle /\ StoreIdle

\* calculate_text_similarity(text1, text2)
Compare ==
    /\ s_pc = "start"
    /\ s_pc' = "compared"
    /\ s_ratio' = calculate_text_similarity(s_text1, s_text2)
    /\ UNCHANGED <<s_text1, s_text2>>
    /\ UNCHANGED outsideSimilarity

NextSimilarity == Compare

SpecSimilarity == InitSimilarity /\ [][NextSimilarity]_vars

(***************************************************************************)
(* Duplicate detector: DataProcessor.detect_duplicates and                 *)
(* DataProcessor.remove_invalid_data over the posts table.                 *)
(***************************************************************************)
\* processing.min_comment_length, processing.max_comment_length and
\* processing.similarity_threshold (in hundredths) of the configuration
min_comment_length == 20
max_comment_length == 5000
similarity_threshold == 85

\* LENGTH(answer_content_cleaned) > 50 of the candidate query
CandidateMinLength == 50

\* A row of posts; has_content is FALSE for a NULL answer_content_cleaned.
\* A row inserted without cleaned content, a row as save_api_post_data
\* inserts it (cleaned content, processed_at NULL) and a row as
\* process_all_posts leaves it.
UnprocessedRow == [processed_at |-> FALSE, has_content |-> FALSE, answer_content_cleaned |-> <<>>]
ScrapedRow(text) == [processed_at |-> FALSE, has_content |-> TRUE, answer_content_cleaned |-> text]
ProcessedRow(text) == [processed_at |-> TRUE, has_content |-> TRUE, answer_content_cleaned |-> text]

\* I was admitted to MIT for the PhD program in machine learning (61 characters)
AdmittedPhD ==
    <<"I", " ", "w", "a", "s", " ", "a", "d", "m", "i", "t", "t", "e", "d", " ", "t", "o", " ",
      "M", "I", "T", " ", "f", "o", "r", " ", "t", "h", "e", " ", "P", "h", "D", " ", "p", "r",
      "o", "g", "r", "a", "m", " ", "i", "n", " ", "m", "a", "c", "h", "i", "n", "e", " ", "l",
      "e", "a", "r", "n", "i", "n", "g">>
\* I was admitted to MIT for the MS program in machine learning too (64 characters)
AdmittedMS ==
    <<"I", " ", "w", "a", "s", " ", "a", "d", "m", "i", "t", "t", "e", "d", " ", "t", "o", " ",
      "M", "I", "T", " ", "f", "o", "r", " ", "t", "h", "e", " ", "M", "S", " ", "p", "r", "o",
      "g", "r", "a", "m", " ", "i", "n", " ", "m", "a", "c", "h", "i", "n", "e", " ", "l", "e",
      "a", "r", "n", "i", "n", "g", " ", "t", "o", "o">>
\* I was admitted to CMU for the MS program in deep learning too (61 characters)
AdmittedCMU ==
    <<"I", " ", "w", "a", "s", " ", "a", "d", "m", "i", "t", "t", "e", "d", " ", "t", "o", " ",
      "C", "M", "U", " ", "f", "o", "r", " ", "t", "h", "e", " ", "M", "S", " ", "p", "r", "o",
      "g", "r", "a", "m", " ", "i", "n", " ", "d", "e", "e", "p", " ", "l", "e", "a", "r", "n",
      "i", "n", "g", " ", "t", "o", "o">>
\* The GRE is not required for this program any more. (50 characters)
FiftyLong ==
    <<"T", "h", "e", " ", "G", "R", "E", " ", "i", "s", " ", "n", "o", "t", " ", "r", "e", "q",
      "u", "i", "r", "e", "d", " ", "f", "o", "r", " ", "t", "h", "i", "s", " ", "p", "r", "o",
      "g", "r", "a", "m", " ", "a", "n", "y", " ", "m", "o", "r", "e", ".">>
\* thanks
ShortAnswer ==
    <<"t", "h", "a", "n", "k", "s">>

\* The cleaned contents of the model.
DupContents == {AdmittedPhD, AdmittedMS, AdmittedCMU, FiftyLong, ShortAnswer}

(***************************************************************************)
(* The texts of the store: what save_api_post_data and process_all_posts   *)
(* make of a scraped title and content.                                    *)
(***************************************************************************)
\* <[^>]+>
tag_pattern == Cats(<<Ch({"<"}), Plus(Alphabet \ {">"}), Ch({">"})>>)

\* utils.clean_text
clean_text(text) ==
    IF text = <<>> THEN <<>>
    ELSE Sub(url_pattern, <<>>,
             Strip(Sub(whitespace_pattern, <<" ">>, Sub(tag_pattern, <<>>, text))))

\* separator.join(items) from the k-th item on
RECURSIVE JoinFrom(_, _, _)
JoinFrom(items, separator, k) ==
    IF k > Len(items) THEN <<>>
    ELSE IF k = Len(items) THEN items[k]
    ELSE items[k] \o separator \o JoinFrom(items, separator, k + 1)

Join(items, separator) == JoinFrom(items, separator, 1)

\* items[:3]
FirstThree(items) == SubSeq(items, 1, IF Len(items) < 3 THEN Len(items) ELSE 3)

\* [.!?]
SentenceEnds == {".", "!", "?"}

\* The offsets at which a piece of re.split(r'[.!?]+', text) that is not
\* empty starts, and the piece that starts at k.
PieceStarts(text) ==
    {k \in 1..Len(text) :
        text[k] \notin SentenceEnds /\ (k = 1 \/ text[k - 1] \in SentenceEnds)}

PieceAt(text, k) ==
    SubSeq(text, k, CHOOSE j \in k..Len(text) :
                        /\ \A i \in k..j : text[i] \notin SentenceEnds
                        /\ j = Len(text) \/ text[j + 1] \in SentenceEnds)

\* [s.strip() for s in sentences if len(s.strip()) > 20], from the pieces
\* that start at starts
KeptSentence(sentence) == IF Len(sentence) > 20 THEN <<sentence>> ELSE <<>>

RECURSIVE SentencesOf(_, _)
SentencesAt(text, starts, k) ==
    KeptSentence(Strip(PieceAt(text, k))) \o SentencesOf(text, starts \ {k})

SentencesOf(text, starts) ==
    IF starts = {} THEN <<>>
    ELSE SentencesAt(text, starts, CHOOSE k \in starts : \A j \in starts : k <= j)

key_keywords == <<<<"u", "n", "i", "v", "e", "r", "s", "i", "t", "y">>,
    <<"c", "o", "l", "l", "e", "g", "e">>,
    <<"a", "d", "m", "i", "s", "s", "i", "o", "n">>,
    <<"a", "p", "p", "l", "i", "c", "a", "t", "i", "o", "n">>,
    <<"g", "p", "a">>,
    <<"e", "x", "p", "e", "r", "i", "e", "n", "c", "e">>,
    <<"r", "e", "c", "o", "m", "m", "e", "n", "d">>,
    <<"d", "i", "f", "f", "i", "c", "u", "l", "t">>,
    <<"e", "a", "s", "y">>,
    <<"g", "o", "o", "d">>,
    <<"b", "a", "d">>>>

\* The score of a sentence in hundredths: one for every keyword it holds,
\* plus min(len(sentence) / 100, 1.0).
SentenceScore(sentence) ==
    100 * Cardinality({k \in 1..Len(key_keywords) : Contains(LowerStr(sentence), key_keywords[k])})
    + (IF Len(sentence) > 100 THEN 100 ELSE Len(sentence))

\* The place of the i-th sentence after the stable sort by falling score.
PlaceOf(scores, i) ==
    1 + Cardinality({j \in 1..Len(scores) :
                        scores[j] > scores[i] \/ (scores[j] = scores[i] /\ j < i)})

\* [s[0] for s in scored_sentences[:max_sentences]]
TopSentences(sentences, scores, max_sentences) ==
    [place \in 1..max_sentences |->
        sentences[CHOOSE i \in 1..Len(sentences) : PlaceOf(scores, i) = place]]

KeyContentOf(sentences, max_sentences) ==
    IF Len(sentences) <= max_sentences THEN Join(sentences, <<".", " ">>)
    ELSE Join(TopSentences(sentences, [i \in 1..Len(sentences) |-> SentenceScore(sentences[i])],
                           max_sentences), <<".", " ">>)

\* DataProcessor.extract_key_content(text, max_sentences=3)
extract_key_content(text) ==
    IF text = <<>> THEN <<>> ELSE KeyContentOf(SentencesOf(text, PieceStarts(text)), 3)

\* Results
ResultsTitle ==
    <<"R", "e", "s", "u", "l", "t", "s">>
\* Harvard and Stanford both accepted us to the PhD program, I love it
BothAccepted ==
    <<"H", "a", "r", "v", "a", "r", "d", " ", "a", "n", "d", " ", "S", "t", "a", "n", "f", "o",
      "r", "d", " ", "b", "o", "t", "h", " ", "a", "c", "c", "e", "p", "t", "e", "d", " ", "u",
      "s", " ", "t", "o", " ", "t", "h", "e", " ", "P", "h", "D", " ", "p", "r", "o", "g", "r",
      "a", "m", ",", " ", "I", " ", "l", "o", "v", "e", " ", "i", "t">>
\* Harvard and Stanford both accepted us to the PhD program, I love it http://x.y
BothAcceptedLink ==
    <<"H", "a", "r", "v", "a", "r", "d", " ", "a", "n", "d", " ", "S", "t", "a", "n", "f", "o",
      "r", "d", " ", "b", "o", "t", "h", " ", "a", "c", "c", "e", "p", "t", "e", "d", " ", "u",
      "s", " ", "t", "o", " ", "t", "h", "e", " ", "P", "h", "D", " ", "p", "r", "o", "g", "r",
      "a", "m", ",", " ", "I", " ", "l", "o", "v", "e", " ", "i", "t", " ", "h", "t", "t", "p",
      ":", "/", "/", "x", ".", "y">>
\* thanks!!
ThanksThanks ==
    <<"t", "h", "a", "n", "k", "s", "!", "!">>

\* utils.generate_content_hash: hashlib.md5(content.encode('utf-8')).hexdigest() of
\* the contents of the model
generate_content_hash(content) ==
    CASE content = ResultsTitle \o BothAccepted -> "6a663a30838f5a70d5d183c500079bc8"
      [] content = ResultsTitle \o BothAcceptedLink -> "d2b6584775de92fcdd67232e427c13f1"
      [] content = ResultsTitle \o ThanksThanks -> "ebc5509f6ec0847ed03462827a6c7c2f"

\* The titles and contents that are scraped.
StoreTitles == {ResultsTitle}
StoreRaws == {BothAccepted, BothAcceptedLink, ThanksThanks}

\* The cleaned contents the store can hold: clean_text of the content after
\* save_api_post_data, clean_and_normalize_text of it after process_all_posts.
StoreContents ==
    {clean_text(raw) : raw \in StoreRaws} \cup {clean_and_normalize_text(raw) : raw \in StoreRaws}

\* combined_text of label_all_posts for the processed rows of the store
StoreLabelTexts ==
    {clean_text(title) \o <<" ">> \o clean_and_normalize_text(raw) \o <<" ">>
        \o extract_key_content(clean_and_normalize_text(raw)) :
            title \in StoreTitles, raw \in StoreRaws}

\* The contents that detect_duplicates can compare.
ComparedContents == {text \in DupContents \cup StoreContents : Len(text) > CandidateMinLength}

\* The contents a table can hold together with a content: the table of the
\* detector and the table of the store hold different contents.
ComparedWith(text) ==
    IF text \in StoreContents THEN ComparedContents \cap StoreContents
    ELSE ComparedContents \ StoreContents

\* calculate_text_similarity of every pair of contents of a table
Similarities ==
    [text1 \in ComparedContents |->
        [text2 \in ComparedWith(text1) |-> calculate_text_similarity(text1, text2)]]

\* A candidate query with a minimum of 61 characters.
LongCandidates(posts) ==
    {id \in DOMAIN posts : posts[id].has_content /\ Len(posts[id].answer_content_cleaned) > 61}

\* The candidate query of detect_duplicates: the ids of the rows with
\* answer_content_cleaned IS NOT NULL AND LENGTH(answer_content_cleaned) > 50.
Candidates(posts) ==
    {id \in DOMAIN posts :
        posts[id].has_content /\ Len(posts[id].answer_content_cleaned) > CandidateMinLength}

\* The rows <<id, answer_content_cleaned>> of the ids of order.
RowsOf(posts, order) ==
    [k \in 1..Len(order) |-> <<order[k], posts[order[k]].answer_content_cleaned>>]

\* An inner loop that compares row i with the next row only.
NextRowOnly(rows, i, threshold) ==
    SelectSeq([n \in 1..(IF i < Len(rows) THEN 1 ELSE 0) |->
                  <<rows[i][1], rows[i + n][1], Similarities[rows[i][2]][rows[i + n][2]]>>],
              LAMBDA dup : AtLeastPercent(dup[3], threshold))

\* The pairs that the inner loop of detect_duplicates appends for row i.
DuplicatesOfRow(rows, i, threshold) ==
    SelectSeq([n \in 1..(Len(rows) - i) |->
                  <<rows[i][1], rows[i + n][1], Similarities[rows[i][2]][rows[i + n][2]]>>],
              LAMBDA dup : AtLeastPercent(dup[3], threshold))

\* detect_duplicates(threshold) on the rows in the order the query returned
\* them: the list of (id1, id2, similarity).
detect_duplicates(rows, threshold) ==
    Flatten([i \in 1..Len(rows) |-> DuplicatesOfRow(rows, i, threshold)])

\* duplicate_ids = [dup[1] for dup in duplicates]
DuplicateIds(dups) == [k \in 1..Len(dups) |-> dups[k][2]]

\* DELETE FROM posts WHERE id IN (ids)
DeleteIds(posts, ids) == [id \in DOMAIN posts \ ids |-> posts[id]]

\* The length filter of remove_invalid_data.
InvalidLength(posts) ==
    {id \in DOMAIN posts :
        /\ posts[id].has_content /\ posts[id].processed_at
        /\ \/ Len(posts[id].answer_content_cleaned) < min_comment_length
           \/ Len(posts[id].answer_content_cleaned) > max_comment_length}

\* The language filter of remove_invalid_data: posts_to_check, and the posts
\* whose language is detected at all.
PostsToCheck(posts) == {id \in DOMAIN posts : posts[id].has_content /\ posts[id].processed_at}
LanguageChecked(posts) ==
    {id \in PostsToCheck(posts) : Len(Strip(posts[id].answer_content_cleaned)) > 10}

\* The ids the language filter deletes when detect_language gives a
\* language other than the target for the posts of non_target: none when
\* they are more than 80% of the posts checked.
NonTargetDeleted(posts, non_target) ==
    IF Cardinality(non_target) * 10 > Cardinality(PostsToCheck(posts)) * 8 THEN {} ELSE non_target

\* What the language filter can delete: nothing when it is disabled or an
\* exception ends it, else the posts of some set of detections.
LanguageDeletions(cfg, posts) ==
    IF cfg.enable_language_filter
    THEN {{}} \cup {NonTargetDeleted(posts, nt) : nt \in SUBSET LanguageChecked(posts)}
    ELSE {{}}

(***************************************************************************)
(* The detector as a state machine over a posts table.                     *)
(***************************************************************************)
\* The number of posts of the table.
MaxPosts == 3

DetectorConfigs == [enable_language_filter : BOOLEAN]

\* The contents of the rows that are not processed yet.
ScrapedContents == {AdmittedMS, ShortAnswer}

InitDetector ==
    /\ d_pc = "ready"
    /\ d_cfg \in DetectorConfigs
    /\ d_posts \in [1..MaxPosts -> {UnprocessedRow} \cup {ScrapedRow(t) : t \in ScrapedContents}
                                        \cup {ProcessedRow(t) : t \in DupContents}]
    /\ d_rows = <<>>
    /\ d_dups = <<>>
    /\ d_flagged = <<>>
    /\ NormIdle /\ ResolverIdle /\ SimilarityIdle /\ LabelerIdle /\ AnalyzerIdle /\ StoreIdle

\* detect_duplicates(): the query has no ORDER BY, the backend returns the
\* candidate rows in some order.
DetectDuplicates ==
    /\ d_pc = "ready"
    /\ d_pc' = "detected"
    /\ \E order \in ListsOf(Candidates(d_posts)) :
          /\ d_rows' = RowsOf(d_posts, order)
          /\ d_dups' = detect_duplicates(RowsOf(d_posts, order), similarity_threshold)
    /\ UNCHANGED <<d_cfg, d_posts, d_flagged>>
    /\ UNCHANGED outsideDetector

\* The table after the duplicates of the rows in the given order are deleted.
WithoutDuplicates(posts, order) ==
    DeleteIds(posts, SeqToSet(DuplicateIds(detect_duplicates(RowsOf(posts, order), similarity_threshold))))

\* remove_invalid_data(): the length filter, the language filter, then the
\* second record of every duplicate pair is deleted.
RemoveInvalidData ==
    /\ d_pc = "ready"
    /\ d_pc' = "removed"
    /\ \E gone \in LanguageDeletions(d_cfg, DeleteIds(d_posts, InvalidLength(d_posts))) :
       \E order \in ListsOf(Candidates(DeleteIds(DeleteIds(d_posts, InvalidLength(d_posts)), gone))) :
          /\ d_rows' = RowsOf(d_posts, order)
          /\ d_dups' = detect_duplicates(RowsOf(d_posts, order), similarity_threshold)
          /\ d_flagged' = DuplicateIds(detect_duplicates(RowsOf(d_posts, order), similarity_threshold))
          /\ d_posts' = WithoutDuplicates(DeleteIds(DeleteIds(d_posts, InvalidLength(d_posts)), gone), order)
    /\ UNCHANGED d_cfg
    /\ UNCHANGED outsideDetector

NextDetector == DetectDuplicates \/ RemoveInvalidData

SpecDetector == InitDetector /\ [][NextDetector]_vars

(***************************************************************************)
(* Keep-first of the duplicate detector                                    *)
(***************************************************************************)
\* The ids flagged for removal: the second record of every pair found.
FlaggedIds ==
    IF d_pc = "removed" THEN SeqToSet(d_flagged) ELSE {d_dups[k][2] : k \in DOMAIN d_dups}

\* The candidate rows i and j are near duplicates: the similarity of the
\* record with the lesser identifier to the one with the greater identifier
\* is at or above the threshold.
NearDuplicates(i, j) ==
    /\ d_rows[i][1] < d_rows[j][1]
    /\ AtLeastPercent(Similarities[d_rows[i][2]][d_rows[j][2]], similarity_threshold)

\* The near-duplicate cluster that holds the rows of members.
RECURSIVE ClusterOf(_)
ClusterOf(members) ==
    IF \E j \in DOMAIN d_rows \ members :
            \E i \in members : NearDuplicates(i, j) \/ NearDuplicates(j, i)
    THEN ClusterOf(members \cup {j \in DOMAIN d_rows :
                        \E i \in members : NearDuplicates(i, j) \/ NearDuplicates(j, i)})
    ELSE members

\* The row of the earliest-created record of the cluster of row i.
EarliestOfCluster(i) ==
    CHOOSE m \in ClusterOf({i}) : \A k \in ClusterOf({i}) : d_rows[m][1] <= d_rows[k][1]

\* C7: keep-first by identifier. After detect_duplicates or
\* remove_invalid_data, whatever the order of the rows returned: every pair
\* found names the lesser identifier first, the record with the greater
\* identifier of every pair of near duplicates is flagged, the earliest
\* record of every near-duplicate cluster is not flagged, and two candidates
\* with identical content and ids a < b give the flagged set {b}.
C7_KeepFirstById ==
    d_pc \in {"detected", "removed"} =>
        /\ \A k \in DOMAIN d_dups : d_dups[k][1] < d_dups[k][2]
        /\ \A i, j \in DOMAIN d_rows : NearDuplicates(i, j) => d_rows[j][1] \in FlaggedIds
        /\ \A i \in DOMAIN d_rows : d_rows[EarliestOfCluster(i)][1] \notin FlaggedIds
        /\ (Len(d_rows) = 2 /\ d_rows[1][2] = d_rows[2][2])
               => FlaggedIds = {IF d_rows[1][1] < d_rows[2][1] THEN d_rows[2][1] ELSE d_rows[1][1]}

(***************************************************************************)
(* Bounds and reflexivity of the similarity                                *)
(***************************************************************************)
\* The capital letter of a character.
UpperForm(c) ==
    CASE c = "a" -> "A"
      [] c \in {SmallSigma, FinalSigma} -> CapitalSigma
      [] OTHER -> c

\* The texts differ at most in the case of their letters.
SameButCase(x, y) ==
    Len(x) = Len(y) /\ \A k \in 1..Len(x) : UpperForm(x[k]) = UpperForm(y[k])

\* The texts differ at most in the case of their ASCII letters.
SameButAsciiCase(x, y) ==
    /\ Len(x) = Len(y)
    /\ \A k \in 1..Len(x) : x[k] = y[k] \/ {x[k], y[k]} = {"a", "A"}

\* 0 <= similarity <= 1
InUnitInterval(sim) == sim[2] > 0 /\ 0 <= sim[1] /\ sim[1] <= sim[2]

\* C8 as stated: the similarity of any two texts lies in [0, 1], and it is
\* 1.0 for a non-empty text and a copy of it, also when the two copies
\* differ only in letter case.
C8_ReflexiveUpToCase ==
    s_pc = "compared" =>
        /\ InUnitInterval(s_ratio)
        /\ (s_text1 # <<>> /\ SameButCase(s_text1, s_text2)) => s_ratio[1] = s_ratio[2]

\* C8: the similarity of any two texts lies in [0, 1], and it is 1.0 for a
\* text and a copy of it, also when the two copies differ only in the case
\* of ASCII letters.
C8_ReflexiveUpToAsciiCase ==
    s_pc = "compared" =>
        /\ InUnitInterval(s_ratio)
        /\ SameButAsciiCase(s_text1, s_text2) => s_ratio[1] = s_ratio[2]

\* Two different copies of a text of the greatest length, which differ in
\* the case of ASCII letters, have been compared.
C8_Witness ==
    /\ s_pc = "compared"
    /\ s_text1 # s_text2
    /\ Len(s_text1) = MaxSimLen
    /\ SameButAsciiCase(s_text1, s_text2)
    /\ s_ratio[1] = s_ratio[2]

(***************************************************************************)
(* Rule-based labeling: LabelingSystem.  The labels of the source are      *)
(* Chinese words, written here in pinyin: ji nan (extremely hard), nan     *)
(* (hard), zhong deng (moderate), yi (easy); you xiu (excellent), liang    *)
(* hao (good), yi ban (average), cha (poor); ji ji (positive), xiao ji     *)
(* (negative), zhong xing (neutral).  A confidence or a score is the       *)
(* quotient <<numerator, denominator>>.                                    *)
(***************************************************************************)
\* None, for a label
NoLabel == "None"

\* LabelingSystem._initialize_keywords: the keywords of every label, the
\* labels in the order of the dictionary.
difficulty_keywords == <<
    [label |-> "ji nan", keywords |-> <<
        <<"e", "x", "t", "r", "e", "m", "e", "l", "y", " ", "d", "i", "f", "f", "i", "c", "u", "l", "t">>,
        <<"n", "e", "a", "r", "l", "y", " ", "i", "m", "p", "o", "s", "s", "i", "b", "l", "e">>,
        <<"v", "e", "r", "y", " ", "c", "o", "m", "p", "e", "t", "i", "t", "i", "v", "e">>,
        <<"e", "x", "t", "r", "e", "m", "e", "l", "y", " ", "c", "o", "m", "p", "e", "t", "i", "t", "i", "v", "e">>,
        <<"b", "r", "u", "t", "a", "l">>,
        <<"c", "u", "t", "t", "h", "r", "o", "a", "t">>,
        <<"i", "n", "s", "a", "n", "e", " ", "c", "o", "m", "p", "e", "t", "i", "t", "i", "o", "n">>,
        <<"i", "m", "p", "o", "s", "s", "i", "b", "l", "e", " ", "t", "o", " ", "g", "e", "t", " ", "i", "n">>,
        <<"r", "e", "j", "e", "c", "t", "i", "o", "n", " ", "r", "a", "t", "e">>,
        <<"t", "o", "p", " ", "1", "%">>>>],
    [label |-> "nan", keywords |-> <<
        <<"d", "i", "f", "f", "i", "c", "u", "l", "t">>,
        <<"h", "a", "r", "d">>,
        <<"c", "o", "m", "p", "e", "t", "i", "t", "i", "v", "e">>,
        <<"c", "h", "a", "l", "l", "e", "n", "g", "i", "n", "g">>,
        <<"t", "o", "u", "g", "h">>,
        <<"s", "e", "l", "e", "c", "t", "i", "v", "e">>,
        <<"h", "i", "g", "h", " ", "s", "t", "a", "n", "d", "a", "r", "d", "s">>,
        <<"r", "i", "g", "o", "r", "o", "u", "s">>,
        <<"d", "e", "m", "a", "n", "d", "i", "n", "g">>,
        <<"l", "o", "w", " ", "a", "c", "c", "e", "p", "t", "a", "n", "c", "e", " ", "r", "a", "t", "e">>,
        <<"h", "a", "r", "d", " ", "t", "o", " ", "g", "e", "t", " ", "i", "n">>>>],
    [label |-> "zhong deng", keywords |-> <<
        <<"m", "o", "d", "e", "r", "a", "t", "e">>,
        <<"a", "v", "e", "r", "a", "g", "e">>,
        <<"d", "e", "c", "e", "n", "t", " ", "c", "h", "a", "n", "c", "e">>,
        <<"r", "e", "a", "s", "o", "n", "a", "b", "l", "e">>,
        <<"f", "a", "i", "r", " ", "c", "o", "m", "p", "e", "t", "i", "t", "i", "o", "n">>,
        <<"s", "t", "a", "n", "d", "a", "r", "d", " ", "r", "e", "q", "u", "i", "r", "e", "m", "e", "n", "t", "s">>,
        <<"t", "y", "p", "i", "c", "a", "l">>,
        <<"n", "o", "r", "m", "a", "l", " ", "d", "i", "f", "f", "i", "c", "u", "l", "t", "y">>,
        <<"a", "c", "h", "i", "e", "v", "a", "b", "l", "e">>>>],
    [label |-> "yi", keywords |-> <<
        <<"e", "a", "s", "y">>,
        <<"s", "i", "m", "p", "l", "e">>,
        <<"n", "o", "t", " ", "d", "i", "f", "f", "i", "c", "u", "l", "t">>,
        <<"s", "t", "r", "a", "i", "g", "h", "t", "f", "o", "r", "w", "a", "r", "d">>,
        <<"h", "i", "g", "h", " ", "a", "c", "c", "e", "p", "t", "a", "n", "c", "e", " ", "r", "a", "t", "e">>,
        <<"n", "o", "t", " ", "c", "o", "m", "p", "e", "t", "i", "t", "i", "v", "e">>,
        <<"a", "c", "c", "e", "s", "s", "i", "b", "l", "e">>,
        <<"e", "a", "s", "y", " ", "t", "o", " ", "g", "e", "t", " ", "i", "n">>,
        <<"g", "u", "a", "r", "a", "n", "t", "e", "e", "d", " ", "a", "d", "m", "i", "s", "s", "i", "o", "n">>>>]>>

course_keywords == <<
    [label |-> "you xiu", keywords |-> <<
        <<"e", "x", "c", "e", "l", "l", "e", "n", "t">>,
        <<"o", "u", "t", "s", "t", "a", "n", "d", "i", "n", "g">>,
        <<"a", "m", "a", "z", "i", "n", "g">>,
        <<"f", "a", "n", "t", "a", "s", "t", "i", "c">>,
        <<"b", "r", "i", "l", "l", "i", "a", "n", "t">>,
        <<"t", "o", "p", "-", "n", "o", "t", "c", "h">>,
        <<"w", "o", "r", "l", "d", "-", "c", "l", "a", "s", "s">>,
        <<"e", "x", "c", "e", "p", "t", "i", "o", "n", "a", "l">>,
        <<"s", "u", "p", "e", "r", "b">>,
        <<"i", "n", "c", "r", "e", "d", "i", "b", "l", "e">>,
        <<"h", "i", "g", "h", "l", "y", " ", "r", "e", "c", "o", "m", "m", "e", "n", "d">>,
        <<"b", "e", "s", "t", " ", "c", "o", "u", "r", "s", "e">>,
        <<"l", "o", "v", "e", " ", "t", "h", "i", "s", " ", "c", "o", "u", "r", "s", "e">>>>],
    [label |-> "liang hao", keywords |-> <<
        <<"g", "o", "o", "d">>,
        <<"g", "r", "e", "a", "t">>,
        <<"n", "i", "c", "e">>,
        <<"s", "o", "l", "i", "d">>,
        <<"d", "e", "c", "e", "n", "t">>,
        <<"s", "a", "t", "i", "s", "f", "a", "c", "t", "o", "r", "y">>,
        <<"r", "e", "c", "o", "m", "m", "e", "n", "d">>,
        <<"w", "o", "r", "t", "h", " ", "i", "t">>,
        <<"h", "e", "l", "p", "f", "u", "l">>,
        <<"u", "s", "e", "f", "u", "l">>,
        <<"p", "o", "s", "i", "t", "i", "v", "e", " ", "e", "x", "p", "e", "r", "i", "e", "n", "c", "e">>>>],
    [label |-> "yi ban", keywords |-> <<
        <<"o", "k", "a", "y">>,
        <<"a", "v", "e", "r", "a", "g", "e">>,
        <<"m", "e", "d", "i", "o", "c", "r", "e">>,
        <<"s", "o", "-", "s", "o">>,
        <<"n", "o", "t", "h", "i", "n", "g", " ", "s", "p", "e", "c", "i", "a", "l">>,
        <<"t", "y", "p", "i", "c", "a", "l">>,
        <<"s", "t", "a", "n", "d", "a", "r", "d">>,
        <<"n", "e", "u", "t", "r", "a", "l">>,
        <<"m", "i", "x", "e", "d", " ", "f", "e", "e", "l", "i", "n", "g", "s">>>>],
    [label |-> "cha", keywords |-> <<
        <<"b", "a", "d">>,
        <<"t", "e", "r", "r", "i", "b", "l", "e">>,
        <<"a", "w", "f", "u", "l">>,
        <<"h", "o", "r", "r", "i", "b", "l", "e">>,
        <<"d", "i", "s", "a", "p", "p", "o", "i", "n", "t", "i", "n", "g">>,
        <<"w", "a", "s", "t", "e", " ", "o", "f", " ", "t", "i", "m", "e">>,
        <<"u", "s", "e", "l", "e", "s", "s">>,
        <<"b", "o", "r", "i", "n", "g">>,
        <<"p", "o", "o", "r", "l", "y", " ", "t", "a", "u", "g", "h", "t">>,
        <<"d", "o", "n", "'", "t", " ", "r", "e", "c", "o", "m", "m", "e", "n", "d">>,
        <<"a", "v", "o", "i", "d">>,
        <<"r", "e", "g", "r", "e", "t", " ", "t", "a", "k", "i", "n", "g">>>>]>>

sentiment_keywords == <<
    [label |-> "ji ji", keywords |-> <<
        <<"l", "o", "v", "e">>,
        <<"e", "n", "j", "o", "y">>,
        <<"h", "a", "p", "p", "y">>,
        <<"e", "x", "c", "i", "t", "e", "d">>,
        <<"g", "r", "a", "t", "e", "f", "u", "l">>,
        <<"a", "m", "a", "z", "i", "n", "g">>,
        <<"w", "o", "n", "d", "e", "r", "f", "u", "l">>,
        <<"f", "a", "n", "t", "a", "s", "t", "i", "c">>,
        <<"g", "r", "e", "a", "t", " ", "e", "x", "p", "e", "r", "i", "e", "n", "c", "e">>,
        <<"h", "i", "g", "h", "l", "y", " ", "r", "e", "c", "o", "m", "m", "e", "n", "d">>,
        <<"p", "o", "s", "i", "t", "i", "v", "e">>,
        <<"s", "a", "t", "i", "s", "f", "i", "e", "d">>,
        <<"t", "h", "r", "i", "l", "l", "e", "d">>,
        <<"b", "l", "e", "s", "s", "e", "d">>,
        <<"f", "o", "r", "t", "u", "n", "a", "t", "e">>>>],
    [label |-> "xiao ji", keywords |-> <<
        <<"h", "a", "t", "e">>,
        <<"d", "i", "s", "a", "p", "p", "o", "i", "n", "t", "e", "d">>,
        <<"f", "r", "u", "s", "t", "r", "a", "t", "e", "d">>,
        <<"r", "e", "g", "r", "e", "t">>,
        <<"t", "e", "r", "r", "i", "b", "l", "e">>,
        <<"a", "w", "f", "u", "l">>,
        <<"h", "o", "r", "r", "i", "b", "l", "e">>,
        <<"n", "i", "g", "h", "t", "m", "a", "r", "e">>,
        <<"s", "t", "r", "e", "s", "s", "e", "d">>,
        <<"d", "e", "p", "r", "e", "s", "s", "e", "d">>,
        <<"n", "e", "g", "a", "t", "i", "v", "e">>,
        <<"d", "i", "s", "s", "a", "t", "i", "s", "f", "i", "e", "d">>,
        <<"a", "n", "g", "r", "y">>,
        <<"u", "p", "s", "e", "t">>,
        <<"w", "o", "r", "r", "i", "e", "d">>>>],
    [label |-> "zhong xing", keywords |-> <<
        <<"o", "k", "a", "y">>,
        <<"f", "i", "n", "e">>,
        <<"n", "o", "r", "m", "a", "l">>,
        <<"t", "y", "p", "i", "c", "a", "l">>,
        <<"s", "t", "a", "n", "d", "a", "r", "d">>,
        <<"a", "v", "e", "r", "a", "g", "e">>,
        <<"n", "e", "u", "t", "r", "a", "l">>,
        <<"m", "i", "x", "e", "d">>,
        <<"u", "n", "c", "e", "r", "t", "a", "i", "n">>,
        <<"u", "n", "d", "e", "c", "i", "d", "e", "d">>>>]>>


\* q + tenths / 10
AddTenths(q, tenths) == <<q[1] * 10 + tenths * q[2], q[2] * 10>>
\* q * 0.5
Halved(q) == <<q[1], q[2] * 2>>
\* min(q, 1.0)
AtMostOne(q) == IF q[1] > q[2] THEN <<1, 1>> ELSE q
\* q >= percent / 100
Reaches(q, percent) == q[1] * 100 >= percent * q[2]

\* len(text.split()): the number of words between white space
WordCount(text) ==
    Cardinality({k \in 1..Len(text) :
        text[k] \notin SpaceSet /\ (k = 1 \/ text[k - 1] \in SpaceSet)})

\* The offsets at which word occurs in text.
Occurrences(text, word) ==
    {i \in 0..(Len(text) - Len(word)) : \A k \in 1..Len(word) : text[i + k] = word[k]}

\* str.count: the occurrences of word counted from the left, each one
\* starting after the end of the one counted before it.
RECURSIVE CountFrom(_, _, _)
CountFrom(found, size, from) ==
    IF \A i \in found : i < from THEN 0
    ELSE 1 + CountFrom(found, size, size + CHOOSE i \in found :
                                        i >= from /\ \A j \in found : j >= from => i <= j)

StrCount(text, word) == CountFrom(Occurrences(text, word), Len(word), 0)

\* The score of the keywords from the k-th on: count * weight of each.
RECURSIVE ScoreFrom(_, _, _)
ScoreFrom(text_lower, keywords, k) ==
    IF k > Len(keywords) THEN 0
    ELSE StrCount(text_lower, LowerStr(keywords[k])) * WordCount(keywords[k])
         + ScoreFrom(text_lower, keywords, k + 1)

\* max(n, 1)
AtLeastOne(n) == IF n > 1 THEN n ELSE 1

\* LabelingSystem.calculate_keyword_score, text_lower being text.lower()
KeywordScore(text_lower, keywords) ==
    <<ScoreFrom(text_lower, keywords, 1), AtLeastOne(WordCount(text_lower))>>

calculate_keyword_score(text, keywords) == KeywordScore(LowerStr(text), keywords)

\* max(scores, key=scores.get) with its score: a label replaces the best
\* one so far when its score is greater (the scores have one denominator).
Better(candidate, best) == IF candidate[2][1] > best[2][1] THEN candidate ELSE best

RECURSIVE BestFrom(_, _, _, _)
BestFrom(table, text_lower, k, best) ==
    IF k > Len(table) THEN best
    ELSE BestFrom(table, text_lower, k + 1,
                  Better(<<table[k].label, KeywordScore(text_lower, table[k].keywords)>>, best))

\* A maximum in which the last of the labels of equal score wins.
AsGood(candidate, best) == IF candidate[2][1] >= best[2][1] THEN candidate ELSE best

RECURSIVE LastBestFrom(_, _, _, _)
LastBestFrom(table, text_lower, k, best) ==
    IF k > Len(table) THEN best
    ELSE LastBestFrom(table, text_lower, k + 1,
                      AsGood(<<table[k].label, KeywordScore(text_lower, table[k].keywords)>>, best))

LastBest(table, text_lower) ==
    LastBestFrom(table, text_lower, 2, <<table[1].label, KeywordScore(text_lower, table[1].keywords)>>)

\* The best <<label, score>> of a keyword dictionary for a text.
BestOf(table, text_lower) ==
    BestFrom(table, text_lower, 2, <<table[1].label, KeywordScore(text_lower, table[1].keywords)>>)

\* The best label with a confidence that is not limited to 1.0.
Unclipped(best) == [label |-> best[1], confidence |-> best[2]]

\* return best_label, min(confidence, 1.0)
Classified(best) == [label |-> best[1], confidence |-> AtMostOne(best[2])]

\* any(indicator in text_lower for indicator in indicators)
AnyIn(indicators, text_lower) ==
    \E k \in 1..Len(indicators) : Contains(text_lower, indicators[k])

high_score_indicators == <<<<"g", "p", "a", " ", "3", ".", "9">>,
    <<"g", "p", "a", " ", "4", ".", "0">>,
    <<"p", "e", "r", "f", "e", "c", "t", " ", "s", "c", "o", "r", "e">>>>
ease_indicators == <<<<"g", "u", "a", "r", "a", "n", "t", "e", "e", "d">>,
    <<"1", "0", "0", "%", " ", "a", "c", "c", "e", "p", "t", "a", "n", "c", "e">>>>

\* classify_difficulty: a perfect score turns a moderate or easy best label
\* into nan.
BoostDifficulty(text_lower, best) ==
    IF AnyIn(high_score_indicators, text_lower) /\ best[1] \in {"zhong deng", "yi"}
    THEN <<"nan", AddTenths(best[2], 2)>>
    ELSE best

\* classify_difficulty: a guarantee makes the label yi.
BoostEase(text_lower, best) ==
    IF AnyIn(ease_indicators, text_lower) THEN <<"yi", AddTenths(best[2], 3)>> ELSE best

\* LabelingSystem.classify_difficulty: <<label, confidence>>
classify_difficulty(text) ==
    Classified(BoostEase(LowerStr(text),
                    BoostDifficulty(LowerStr(text), BestOf(difficulty_keywords, LowerStr(text)))))

course_indicators == <<<<"p", "r", "o", "f", "e", "s", "s", "o", "r">>,
    <<"c", "l", "a", "s", "s">>,
    <<"c", "o", "u", "r", "s", "e">>,
    <<"l", "e", "c", "t", "u", "r", "e">>,
    <<"a", "s", "s", "i", "g", "n", "m", "e", "n", "t">>,
    <<"e", "x", "a", "m">>>>

\* classify_course_evaluation: the confidence is halved without a course
\* context.
CourseContext(text_lower, best) ==
    IF AnyIn(course_indicators, text_lower) THEN best ELSE <<best[1], Halved(best[2])>>

\* LabelingSystem.classify_course_evaluation
classify_course_evaluation(text) ==
    Classified(CourseContext(LowerStr(text), BestOf(course_keywords, LowerStr(text))))

\* word1|word2|... as a pattern
RECURSIVE AnyWord(_)
AnyWord(words) ==
    IF Len(words) = 1 THEN Lit(words[1]) ELSE Alt(Lit(words[1]), AnyWord(Tail(words)))

\* first\s+\w+\s+(word1|word2|...)
Negation(first, words) ==
    Cats(<<Lit(first), Plus(SpaceSet), Plus(WordSet), Plus(SpaceSet), AnyWord(words)>>)

negation_patterns == <<
    Negation(<<"n", "o", "t">>, <<<<"g", "o", "o", "d">>, <<"g", "r", "e", "a", "t">>, <<"a", "m", "a", "z", "i", "n", "g">>, <<"e", "x", "c", "e", "l", "l", "e", "n", "t">>>>),
    Negation(<<"d", "o", "n", "'", "t">>, <<<<"l", "i", "k", "e">>, <<"l", "o", "v", "e">>, <<"e", "n", "j", "o", "y">>>>),
    Negation(<<"n", "e", "v", "e", "r">>, <<<<"r", "e", "c", "o", "m", "m", "e", "n", "d">>, <<"s", "u", "g", "g", "e", "s", "t">>>>)>>

strong_positive == <<<<"a", "b", "s", "o", "l", "u", "t", "e", "l", "y", " ", "l", "o", "v", "e">>,
    <<"h", "i", "g", "h", "l", "y", " ", "r", "e", "c", "o", "m", "m", "e", "n", "d">>,
    <<"b", "e", "s", "t", " ", "d", "e", "c", "i", "s", "i", "o", "n">>>>
strong_negative == <<<<"w", "o", "r", "s", "t", " ", "e", "x", "p", "e", "r", "i", "e", "n", "c", "e">>,
    <<"c", "o", "m", "p", "l", "e", "t", "e", " ", "d", "i", "s", "a", "s", "t", "e", "r">>,
    <<"t", "o", "t", "a", "l", " ", "w", "a", "s", "t", "e">>>>

\* classify_sentiment: a negated praise turns the best label ji ji into
\* xiao ji (the first pattern found does, the label is xiao ji after it).
Negated(text_lower, best) ==
    IF best[1] = "ji ji" /\ \E k \in 1..Len(negation_patterns) : Matches(negation_patterns[k], text_lower)
    THEN <<"xiao ji", AddTenths(best[2], 2)>>
    ELSE best

\* classify_sentiment: the strong phrases decide the label.
Emphasized(text_lower, best) ==
    IF AnyIn(strong_positive, text_lower) THEN <<"ji ji", AddTenths(best[2], 3)>>
    ELSE IF AnyIn(strong_negative, text_lower) THEN <<"xiao ji", AddTenths(best[2], 3)>>
    ELSE best

\* LabelingSystem.classify_sentiment
classify_sentiment(text) ==
    Classified(Emphasized(LowerStr(text),
                    Negated(LowerStr(text), BestOf(sentiment_keywords, LowerStr(text)))))

\* LabelingSystem.calculate_sentiment_score
calculate_sentiment_score(sentiment_label, confidence) ==
    IF sentiment_label = "ji ji" THEN <<8 * confidence[2] + 2 * confidence[1], confidence[2]>>
    ELSE IF sentiment_label = "xiao ji" THEN <<2 * confidence[2] - 2 * confidence[1], confidence[2]>>
    ELSE <<5, 1>>

\* The label whatever the confidence.
Ungated(classified, threshold) == classified.label

\* label if confidence >= self.confidence_threshold else None
Gate(classified, threshold) ==
    IF Reaches(classified.confidence, threshold) THEN classified.label ELSE NoLabel

\* The results of label_post from the three classifications.
Results(difficulty, course, sentiment, threshold) ==
    [difficulty_label |-> Gate(difficulty, threshold),
     difficulty_confidence |-> difficulty.confidence,
     course_label |-> Gate(course, threshold),
     course_confidence |-> course.confidence,
     sentiment_label |-> Gate(sentiment, threshold),
     sentiment_confidence |-> sentiment.confidence,
     sentiment_score |-> calculate_sentiment_score(sentiment.label, sentiment.confidence)]

\* LabelingSystem.label_post(post_id, text), the threshold in hundredths
label_post(text, threshold) ==
    Results(classify_difficulty(text), classify_course_evaluation(text),
            classify_sentiment(text), threshold)

(***************************************************************************)
(* The labeler as a state machine: label_post, calculate_sentiment_score   *)
(* and label_all_posts over a posts table.                                 *)
(***************************************************************************)
\* the empty title
NoTitle ==
    <<>>
\* Highly recommend
HighlyRecommend ==
    <<"H", "i", "g", "h", "l", "y", " ", "r", "e", "c", "o", "m", "m", "e", "n", "d">>
\* I absolutely love this university! Best decision ever!
LoveUniversity ==
    <<"I", " ", "a", "b", "s", "o", "l", "u", "t", "e", "l", "y", " ", "l", "o", "v", "e", " ",
      "t", "h", "i", "s", " ", "u", "n", "i", "v", "e", "r", "s", "i", "t", "y", "!", " ", "B",
      "e", "s", "t", " ", "d", "e", "c", "i", "s", "i", "o", "n", " ", "e", "v", "e", "r", "!">>
\* MIT is extremely difficult to get into. Very competitive program.
DifficultMIT ==
    <<"M", "I", "T", " ", "i", "s", " ", "e", "x", "t", "r", "e", "m", "e", "l", "y", " ", "d",
      "i", "f", "f", "i", "c", "u", "l", "t", " ", "t", "o", " ", "g", "e", "t", " ", "i", "n",
      "t", "o", ".", " ", "V", "e", "r", "y", " ", "c", "o", "m", "p", "e", "t", "i", "t", "i",
      "v", "e", " ", "p", "r", "o", "g", "r", "a", "m", ".">>
\* This is okay I guess
OkayGuess ==
    <<"T", "h", "i", "s", " ", "i", "s", " ", "o", "k", "a", "y", " ", "I", " ", "g", "u", "e",
      "s", "s">>
\* I don't really like this program at all
DontLike ==
    <<"I", " ", "d", "o", "n", "'", "t", " ", "r", "e", "a", "l", "l", "y", " ", "l", "i", "k",
      "e", " ", "t", "h", "i", "s", " ", "p", "r", "o", "g", "r", "a", "m", " ", "a", "t", " ",
      "a", "l", "l">>
\* worst experience hate it
WorstExperience ==
    <<"w", "o", "r", "s", "t", " ", "e", "x", "p", "e", "r", "i", "e", "n", "c", "e", " ", "h",
      "a", "t", "e", " ", "i", "t">>
\* guaranteed admission with gpa 4.0
Guaranteed ==
    <<"g", "u", "a", "r", "a", "n", "t", "e", "e", "d", " ", "a", "d", "m", "i", "s", "s", "i",
      "o", "n", " ", "w", "i", "t", "h", " ", "g", "p", "a", " ", "4", ".", "0">>
\* The course was excellent
ExcellentCourse ==
    <<"T", "h", "e", " ", "c", "o", "u", "r", "s", "e", " ", "w", "a", "s", " ", "e", "x", "c",
      "e", "l", "l", "e", "n", "t">>
\* love love love
LoveLove ==
    <<"l", "o", "v", "e", " ", "l", "o", "v", "e", " ", "l", "o", "v", "e">>
\* hate hate
HateHate ==
    <<"h", "a", "t", "e", " ", "h", "a", "t", "e">>

LabelTitles == {NoTitle, HighlyRecommend}
LabelContents == {LoveUniversity, DifficultMIT, OkayGuess, DontLike, WorstExperience,
                  Guaranteed, ExcellentCourse, LoveLove, HateHate}

\* A processed row that has no labels yet, and a row that is not processed.
LabelRow(title, content) ==
    [processed_at |-> TRUE, has_content |-> TRUE, answer_content_cleaned |-> content,
     question_title |-> title, key_content |-> <<>>,
     difficulty_label |-> NoLabel, course_evaluation_label |-> NoLabel,
     sentiment_label |-> NoLabel, sentiment_score |-> <<>>]
UnlabelableRow == [LabelRow(NoTitle, LoveLove) EXCEPT !.processed_at = FALSE]

\* combined_text = f"{title} {content} {key_content or ''}"
CombinedText(row) ==
    row.question_title \o <<" ">>
    \o (IF row.has_content THEN row.answer_content_cleaned ELSE <<"N", "o", "n", "e">>)
    \o <<" ">> \o row.key_content

\* The texts that the model labels, the empty text among them, and the
\* thresholds of the model.
LabelTexts ==
    {CombinedText(LabelRow(title, content)) : title \in LabelTitles, content \in LabelContents}
    \cup StoreLabelTexts \cup {<<>>}
Thresholds == {0, 70, 90, 100}

\* label_post of every text of the model, for every threshold
LabelsOf == [text \in LabelTexts |-> [threshold \in Thresholds |-> label_post(text, threshold)]]

\* The query of label_all_posts: the processed posts that lack a label.
Unlabeled(posts) ==
    {id \in DOMAIN posts :
        /\ posts[id].processed_at
        /\ \/ posts[id].difficulty_label = NoLabel
           \/ posts[id].course_evaluation_label = NoLabel
           \/ posts[id].sentiment_label = NoLabel}

\* An UPDATE that writes NULL over a sentiment score that is stored.
ScoreCleared(row, labels) ==
    [row EXCEPT !.difficulty_label = labels.difficulty_label,
                !.course_evaluation_label = labels.course_label,
                !.sentiment_label = labels.sentiment_label,
                !.sentiment_score = IF @ = <<>> THEN labels.sentiment_score ELSE <<>>]

\* The UPDATE of label_all_posts.
UpdateLabels(row, labels) ==
    [row EXCEPT !.difficulty_label = labels.difficulty_label,
                !.course_evaluation_label = labels.course_label,
                !.sentiment_label = labels.sentiment_label,
                !.sentiment_score = labels.sentiment_score]

\* What can happen to a post in the loop of a batch: it is done, the
\* computation raises, or execute_update raises (get_cursor rolls back).
BatchOutcomes == {"ok", "raises", "update raises"}

\* The loop of label_all_posts from the k-th post of the query result on:
\* the table and the count it ends with.  An exception is logged and the
\* loop goes on.
RECURSIVE LabelFrom(_, _, _, _, _, _)
LabelFrom(posts, order, outcome, threshold, k, labeled_count) ==
    IF k > Len(order) THEN [posts |-> posts, count |-> labeled_count]
    ELSE IF outcome[order[k]] = "ok"
    THEN LabelFrom([posts EXCEPT ![order[k]] =
                        UpdateLabels(@, LabelsOf[CombinedText(@)][threshold])],
                   order, outcome, threshold, k + 1, labeled_count + 1)
    ELSE LabelFrom(posts, order, outcome, threshold, k + 1, labeled_count)

\* A loop that ends at the first exception.
RECURSIVE LabelUntilRaise(_, _, _, _, _, _)
LabelUntilRaise(posts, order, outcome, threshold, k, labeled_count) ==
    IF k > Len(order) \/ outcome[order[k]] # "ok" THEN [posts |-> posts, count |-> labeled_count]
    ELSE LabelUntilRaise([posts EXCEPT ![order[k]] =
                              UpdateLabels(@, LabelsOf[CombinedText(@)][threshold])],
                         order, outcome, threshold, k + 1, labeled_count + 1)
LabelAllUntilRaise(posts, order, outcome, threshold) ==
    LabelUntilRaise(posts, order, outcome, threshold, 1, 0)

\* LabelingSystem.label_all_posts
label_all_posts(posts, order, outcome, threshold) == LabelFrom(posts, order, outcome, threshold, 1, 0)

\* The number of posts of the table of the labeler.
MaxLabelPosts == 2

\* The rows of the table of the labeler.
TableRows == {UnlabelableRow, LabelRow(NoTitle, LoveLove), LabelRow(HighlyRecommend, DontLike),
              LabelRow(NoTitle, OkayGuess), LabelRow(NoTitle, Guaranteed)}

\* The confidences given to calculate_sentiment_score.
ScoreConfidences == {<<0, 1>>, <<1, 4>>, <<1, 2>>, <<1, 1>>}

InitLabeler ==
    /\ l_pc = "ready"
    /\ l_threshold \in Thresholds
    /\ l_posts \in [1..MaxLabelPosts -> TableRows]
    /\ l_text = <<>>
    /\ l_results = <<>>
    /\ l_count = 0
    /\ l_failed = {}
    /\ NormIdle /\ ResolverIdle /\ SimilarityIdle /\ DetectorIdle /\ AnalyzerIdle /\ StoreIdle

\* label_post(post_id, text)
LabelPost ==
    /\ l_pc = "ready"
    /\ l_pc' = "returned"
    /\ \E text \in LabelTexts :
          /\ l_text' = text
          /\ l_results' = LabelsOf[text][l_threshold]
    /\ UNCHANGED <<l_threshold, l_posts, l_count, l_failed>>
    /\ UNCHANGED outsideLabeler

\* calculate_sentiment_score(sentiment_label, confidence)
CalculateSentimentScore ==
    /\ l_pc = "ready"
    /\ l_pc' = "scored"
    /\ \E label \in {"ji ji", "xiao ji", "zhong xing", NoLabel}, confidence \in ScoreConfidences :
          l_results' = [sentiment_label |-> label, sentiment_confidence |-> confidence,
                        sentiment_score |-> calculate_sentiment_score(label, confidence)]
    /\ UNCHANGED <<l_threshold, l_posts, l_text, l_count, l_failed>>
    /\ UNCHANGED outsideLabeler

\* label_all_posts(): the query returns the posts in some order.
LabelAllPosts ==
    /\ l_pc = "ready"
    /\ l_pc' = "labeled"
    /\ \E order \in ListsOf(Unlabeled(l_posts)), outcome \in [Unlabeled(l_posts) -> BatchOutcomes] :
          /\ l_posts' = label_all_posts(l_posts, order, outcome, l_threshold).posts
          /\ l_count' = label_all_posts(l_posts, order, outcome, l_threshold).count
          /\ l_failed' = {id \in Unlabeled(l_posts) : outcome[id] # "ok"}
    /\ UNCHANGED <<l_threshold, l_text, l_results>>
    /\ UNCHANGED outsideLabeler

NextLabeler == LabelPost \/ CalculateSentimentScore \/ LabelAllPosts

SpecLabeler == InitLabeler /\ [][NextLabeler]_vars

(***************************************************************************)
(* The threshold gate and the sentiment score                              *)
(***************************************************************************)
\* A label is set only with a confidence at or above the threshold.
Gated(label, confidence) ==
    /\ label # NoLabel => Reaches(confidence, l_threshold)
    /\ ~Reaches(confidence, l_threshold) => label = NoLabel

\* The posts that label_all_posts has written.
Written == {id \in DOMAIN l_posts : l_posts[id].processed_at /\ id \notin l_failed}

\* What label_post computes for the text of post id.
Computed(id) == LabelsOf[CombinedText(l_posts[id])][l_threshold]

\* C9: threshold gate. In the results of label_post and in every row that
\* label_all_posts has written, the label of a dimension is set only if the
\* confidence of the dimension is at or above the threshold, it is empty
\* when the confidence is below, and the sentiment score is there whatever
\* the confidence.
C9_ThresholdGate ==
    /\ l_pc = "returned" =>
          /\ Gated(l_results.difficulty_label, l_results.difficulty_confidence)
          /\ Gated(l_results.course_label, l_results.course_confidence)
          /\ Gated(l_results.sentiment_label, l_results.sentiment_confidence)
          /\ l_results.sentiment_score # <<>>
    /\ l_pc = "labeled" =>
          \A id \in Written :
              /\ Gated(l_posts[id].difficulty_label, Computed(id).difficulty_confidence)
              /\ Gated(l_posts[id].course_evaluation_label, Computed(id).course_confidence)
              /\ Gated(l_posts[id].sentiment_label, Computed(id).sentiment_confidence)
              /\ l_posts[id].sentiment_score # <<>>
              /\ l_posts[id].sentiment_score = Computed(id).sentiment_score

\* label_all_posts has written a post whose sentiment confidence is the
\* threshold (the label is set) and whose difficulty confidence is below it
\* (no label), and a post without a sentiment label that has its score.
C9_Witness ==
    /\ l_pc = "labeled"
    /\ l_threshold > 0
    /\ \E id \in Written :
          /\ Computed(id).sentiment_confidence[1] * 100 = l_threshold * Computed(id).sentiment_confidence[2]
          /\ l_posts[id].sentiment_label # NoLabel
          /\ l_posts[id].difficulty_label = NoLabel
    /\ \E id \in Written :
          /\ l_posts[id].sentiment_label = NoLabel
          /\ l_posts[id].sentiment_score # <<>>

\* low <= q <= high
Between(q, low, high) == low * q[2] <= q[1] /\ q[1] <= high * q[2]

\* C12: sentiment score mapping. calculate_sentiment_score gives 8 + 2c for
\* ji ji (positive), 2 - 2c for xiao ji (negative) and 5 for zhong xing
\* (neutral), for a confidence c in [0, 1]; every sentiment score of
\* label_post lies in [0, 10], and it is above 8 for a text with a strong
\* positive phrase.
C12_SentimentScore ==
    /\ l_pc = "scored" =>
          /\ l_results.sentiment_label = "ji ji" =>
                /\ l_results.sentiment_score[1] * l_results.sentiment_confidence[2]
                     = (8 * l_results.sentiment_confidence[2] + 2 * l_results.sentiment_confidence[1])
                       * l_results.sentiment_score[2]
                /\ Between(l_results.sentiment_score, 8, 10)
          /\ l_results.sentiment_label = "xiao ji" =>
                /\ l_results.sentiment_score[1] * l_results.sentiment_confidence[2]
                     = (2 * l_results.sentiment_confidence[2] - 2 * l_results.sentiment_confidence[1])
                       * l_results.sentiment_score[2]
                /\ Between(l_results.sentiment_score, 0, 2)
          /\ l_results.sentiment_label = "zhong xing" =>
                l_results.sentiment_score[1] = 5 * l_results.sentiment_score[2]
    /\ l_pc = "returned" =>
          /\ Between(l_results.sentiment_score, 0, 10)
          /\ AnyIn(strong_positive, LowerStr(l_text)) =>
                l_results.sentiment_score[1] > 8 * l_results.sentiment_score[2]

\* label_post has returned the score 10 for a text with a strong positive
\* phrase whose confidence is limited to 1.0.
C12_Witness ==
    /\ l_pc = "returned"
    /\ AnyIn(strong_positive, LowerStr(l_text))
    /\ l_results.sentiment_confidence = <<1, 1>>
    /\ l_results.sentiment_score[1] = 10 * l_results.sentiment_score[2]

(***************************************************************************)
(* SmartLabelingAnalyzer: the pattern source, the black-box sources        *)
(* (TextBlob, VADER, transformers, LLM), the merge of their results, the   *)
(* academic adjustments and the confidence.  A score s of the source is    *)
(* the integer s * ScoreUnit: every score of a source has one decimal,     *)
(* every weight has one decimal, and a merge halves at most four times.    *)
(***************************************************************************)
ScoreUnit == 1600
\* a score given in tenths
Tenths(n) == n * (ScoreUnit \div 10)

\* "." of a pattern without re.DOTALL
NotNewline == Alphabet \ {"\n"}

\* SmartLabelingAnalyzer._load_analysis_patterns: the patterns of every
\* label, the labels in the order of the dictionary.
difficulty_patterns == <<
    [label |-> "ji nan", patterns |-> <<
        Lit(<<"i", "m", "p", "o", "s", "s", "i", "b", "l", "e">>),
        Lit(<<"e", "x", "t", "r", "e", "m", "e", "l", "y", " ", "h", "a", "r", "d">>),
        Lit(<<"n", "e", "a", "r", "l", "y", " ", "i", "m", "p", "o", "s", "s", "i", "b", "l", "e">>),
        Lit(<<"e", "x", "t", "r", "e", "m", "e", "l", "y", " ", "c", "o", "m", "p", "e", "t", "i", "t", "i", "v", "e">>),
        Cats(<<Lit(<<"r", "e", "j", "e", "c", "t", "i", "o", "n", " ", "r", "a", "t", "e">>), Star(NotNewline), Lit(<<"9">>), Ch(CharRange("0", "9")), Lit(<<"%">>)>>),
        Cats(<<Lit(<<"a", "c", "c", "e", "p", "t", "a", "n", "c", "e", " ", "r", "a", "t", "e">>), Star(NotNewline), Ch(CharRange("0", "5")), Lit(<<"%">>)>>),
        Lit(<<"t", "o", "p", " ", "1", "%">>),
        Lit(<<"e", "l", "i", "t", "e">>),
        Lit(<<"m", "o", "s", "t", " ", "c", "o", "m", "p", "e", "t", "i", "t", "i", "v", "e">>),
        Lit(<<"i", "v", "y", " ", "l", "e", "a", "g", "u", "e">>),
        Lit(<<"h", "a", "r", "v", "a", "r", "d">>),
        Lit(<<"m", "i", "t">>),
        Lit(<<"s", "t", "a", "n", "f", "o", "r", "d">>),
        Lit(<<"p", "r", "i", "n", "c", "e", "t", "o", "n">>),
        Lit(<<"y", "a", "l", "e">>),
        Lit(<<"d", "r", "e", "a", "m", " ", "s", "c", "h", "o", "o", "l">>),
        Lit(<<"r", "e", "a", "c", "h", " ", "s", "c", "h", "o", "o", "l">>),
        Lit(<<"s", "u", "p", "e", "r", " ", "c", "o", "m", "p", "e", "t", "i", "t", "i", "v", "e">>),
        Cats(<<Lit(<<"g", "o", "t", " ", "r", "e", "j", "e", "c", "t", "e", "d">>), Star(NotNewline), Lit(<<"h", "i", "g", "h", " ", "g", "p", "a">>)>>),
        Cats(<<Lit(<<"p", "e", "r", "f", "e", "c", "t">>), Star(NotNewline), Lit(<<"s", "t", "i", "l", "l", " ", "r", "e", "j", "e", "c", "t", "e", "d">>)>>)>>],
    [label |-> "nan", patterns |-> <<
        Lit(<<"v", "e", "r", "y", " ", "h", "a", "r", "d">>),
        Lit(<<"d", "i", "f", "f", "i", "c", "u", "l", "t">>),
        Lit(<<"c", "o", "m", "p", "e", "t", "i", "t", "i", "v", "e">>),
        Lit(<<"c", "h", "a", "l", "l", "e", "n", "g", "i", "n", "g">>),
        Lit(<<"t", "o", "u", "g", "h">>),
        Cats(<<Lit(<<"r", "e", "j", "e", "c", "t", "i", "o", "n", " ", "r", "a", "t", "e">>), Star(NotNewline), Ch(CharRange("7", "8")), Ch(CharRange("0", "9")), Lit(<<"%">>)>>),
        Cats(<<Lit(<<"a", "c", "c", "e", "p", "t", "a", "n", "c", "e", " ", "r", "a", "t", "e">>), Star(NotNewline), Ch(CharRange("1", "2")), Ch(CharRange("0", "9")), Lit(<<"%">>)>>),
        Lit(<<"t", "o", "p", " ", "1", "0", "%">>),
        Lit(<<"h", "i", "g", "h", "l", "y", " ", "s", "e", "l", "e", "c", "t", "i", "v", "e">>),
        Lit(<<"s", "e", "l", "e", "c", "t", "i", "v", "e">>),
        Lit(<<"b", "e", "r", "k", "e", "l", "e", "y">>),
        Lit(<<"u", "c", "l", "a">>),
        Lit(<<"m", "i", "c", "h", "i", "g", "a", "n">>),
        Lit(<<"c", "a", "r", "n", "e", "g", "i", "e", " ", "m", "e", "l", "l", "o", "n">>),
        Lit(<<"h", "a", "r", "d", " ", "t", "o", " ", "g", "e", "t", " ", "i", "n">>),
        Lit(<<"v", "e", "r", "y", " ", "c", "o", "m", "p", "e", "t", "i", "t", "i", "v", "e">>),
        Lit(<<"n", "e", "e", "d", " ", "h", "i", "g", "h", " ", "g", "p", "a">>),
        Cats(<<Lit(<<"r", "e", "q", "u", "i", "r", "e", "s">>), Star(NotNewline), Lit(<<"r", "e", "s", "e", "a", "r", "c", "h">>)>>),
        Cats(<<Lit(<<"n", "e", "e", "d">>), Star(NotNewline), Lit(<<"e", "x", "p", "e", "r", "i", "e", "n", "c", "e">>)>>)>>],
    [label |-> "zhong deng", patterns |-> <<
        Lit(<<"m", "o", "d", "e", "r", "a", "t", "e">>),
        Lit(<<"a", "v", "e", "r", "a", "g", "e">>),
        Lit(<<"r", "e", "a", "s", "o", "n", "a", "b", "l", "e">>),
        Lit(<<"m", "a", "n", "a", "g", "e", "a", "b", "l", "e">>),
        Lit(<<"d", "e", "c", "e", "n", "t", " ", "c", "h", "a", "n", "c", "e">>),
        Cats(<<Lit(<<"a", "c", "c", "e", "p", "t", "a", "n", "c", "e", " ", "r", "a", "t", "e">>), Star(NotNewline), Ch(CharRange("3", "6")), Ch(CharRange("0", "9")), Lit(<<"%">>)>>),
        Lit(<<"m", "i", "d", "d", "l", "e", " ", "t", "i", "e", "r">>),
        Lit(<<"t", "a", "r", "g", "e", "t", " ", "s", "c", "h", "o", "o", "l">>),
        Lit(<<"g", "o", "o", "d", " ", "c", "h", "a", "n", "c", "e">>),
        Lit(<<"r", "e", "a", "s", "o", "n", "a", "b", "l", "e", " ", "e", "x", "p", "e", "c", "t", "a", "t", "i", "o", "n", "s">>),
        Lit(<<"m", "a", "t", "c", "h", " ", "s", "c", "h", "o", "o", "l">>),
        Lit(<<"s", "t", "a", "t", "e", " ", "s", "c", "h", "o", "o", "l">>),
        Lit(<<"p", "u", "b", "l", "i", "c", " ", "u", "n", "i", "v", "e", "r", "s", "i", "t", "y">>)>>],
    [label |-> "yi", patterns |-> <<
        Lit(<<"e", "a", "s", "y">>),
        Lit(<<"s", "i", "m", "p", "l", "e">>),
        Lit(<<"n", "o", "t", " ", "h", "a", "r", "d">>),
        Lit(<<"a", "c", "c", "e", "s", "s", "i", "b", "l", "e">>),
        Lit(<<"e", "a", "s", "y", " ", "t", "o", " ", "g", "e", "t", " ", "i", "n">>),
        Cats(<<Lit(<<"a", "c", "c", "e", "p", "t", "a", "n", "c", "e", " ", "r", "a", "t", "e">>), Star(NotNewline), Ch(CharRange("7", "9")), Ch(CharRange("0", "9")), Lit(<<"%">>)>>),
        Lit(<<"s", "a", "f", "e", "t", "y", " ", "s", "c", "h", "o", "o", "l">>),
        Lit(<<"b", "a", "c", "k", "u", "p">>),
        Lit(<<"g", "u", "a", "r", "a", "n", "t", "e", "e", "d", " ", "a", "d", "m", "i", "s", "s", "i", "o", "n">>),
        Lit(<<"o", "p", "e", "n", " ", "a", "d", "m", "i", "s", "s", "i", "o", "n">>),
        Lit(<<"c", "o", "m", "m", "u", "n", "i", "t", "y", " ", "c", "o", "l", "l", "e", "g", "e">>),
        Lit(<<"s", "u", "r", "e", " ", "t", "h", "i", "n", "g">>),
        Lit(<<"e", "a", "s", "y", " ", "a", "c", "c", "e", "p", "t", "a", "n", "c", "e">>)>>]>>

course_patterns == <<
    [label |-> "you xiu", patterns |-> <<
        Lit(<<"e", "x", "c", "e", "l", "l", "e", "n", "t">>),
        Lit(<<"o", "u", "t", "s", "t", "a", "n", "d", "i", "n", "g">>),
        Lit(<<"a", "m", "a", "z", "i", "n", "g">>),
        Lit(<<"f", "a", "n", "t", "a", "s", "t", "i", "c">>),
        Cats(<<Lit(<<"b", "e", "s", "t">>), Star(NotNewline), Lit(<<"p", "r", "o", "g", "r", "a", "m">>)>>),
        Cats(<<Lit(<<"t", "o", "p">>), Star(NotNewline), Lit(<<"c", "o", "u", "r", "s", "e">>)>>),
        Lit(<<"h", "i", "g", "h", "l", "y", " ", "r", "e", "c", "o", "m", "m", "e", "n", "d">>)>>],
    [label |-> "liang hao", patterns |-> <<
        Lit(<<"g", "o", "o", "d">>),
        Lit(<<"s", "o", "l", "i", "d">>),
        Lit(<<"d", "e", "c", "e", "n", "t">>),
        Lit(<<"s", "a", "t", "i", "s", "f", "a", "c", "t", "o", "r", "y">>),
        Lit(<<"r", "e", "c", "o", "m", "m", "e", "n", "d">>),
        Lit(<<"w", "o", "r", "t", "h", " ", "i", "t">>)>>],
    [label |-> "yi ban", patterns |-> <<
        Lit(<<"o", "k", "a", "y">>),
        Lit(<<"a", "v", "e", "r", "a", "g", "e">>),
        Lit(<<"m", "e", "d", "i", "o", "c", "r", "e">>),
        Lit(<<"s", "o", "-", "s", "o">>),
        Lit(<<"n", "o", "t", " ", "b", "a", "d">>),
        Lit(<<"c", "o", "u", "l", "d", " ", "b", "e", " ", "b", "e", "t", "t", "e", "r">>)>>],
    [label |-> "cha", patterns |-> <<
        Lit(<<"b", "a", "d">>),
        Lit(<<"t", "e", "r", "r", "i", "b", "l", "e">>),
        Lit(<<"a", "w", "f", "u", "l">>),
        Lit(<<"d", "i", "s", "a", "p", "p", "o", "i", "n", "t", "i", "n", "g">>),
        Lit(<<"w", "a", "s", "t", "e", " ", "o", "f", " ", "t", "i", "m", "e">>),
        Lit(<<"n", "o", "t", " ", "r", "e", "c", "o", "m", "m", "e", "n", "d">>),
        Lit(<<"a", "v", "o", "i", "d">>)>>]>>

sentiment_patterns == <<
    [label |-> "ji ji", patterns |-> <<
        Lit(<<"e", "x", "c", "i", "t", "e", "d">>),
        Lit(<<"h", "a", "p", "p", "y">>),
        Lit(<<"t", "h", "r", "i", "l", "l", "e", "d">>),
        Lit(<<"g", "r", "a", "t", "e", "f", "u", "l">>),
        Lit(<<"l", "o", "v", "e">>),
        Lit(<<"a", "m", "a", "z", "i", "n", "g">>),
        Lit(<<"w", "o", "n", "d", "e", "r", "f", "u", "l">>),
        Lit(<<"p", "e", "r", "f", "e", "c", "t">>)>>],
    [label |-> "xiao ji", patterns |-> <<
        Lit(<<"d", "i", "s", "a", "p", "p", "o", "i", "n", "t", "e", "d">>),
        Lit(<<"f", "r", "u", "s", "t", "r", "a", "t", "e", "d">>),
        Lit(<<"w", "o", "r", "r", "i", "e", "d">>),
        Lit(<<"s", "t", "r", "e", "s", "s", "e", "d">>),
        Lit(<<"h", "a", "t", "e">>),
        Lit(<<"t", "e", "r", "r", "i", "b", "l", "e">>),
        Lit(<<"a", "w", "f", "u", "l">>),
        Lit(<<"r", "e", "g", "r", "e", "t">>)>>],
    [label |-> "zhong xing", patterns |-> <<
        Lit(<<"n", "e", "u", "t", "r", "a", "l">>),
        Lit(<<"o", "b", "j", "e", "c", "t", "i", "v", "e">>),
        Lit(<<"f", "a", "c", "t", "u", "a", "l">>),
        Lit(<<"i", "n", "f", "o", "r", "m", "a", "t", "i", "o", "n">>)>>]>>

\* len(re.findall(pattern, text)): the matches from the left, each search
\* starting at the end of the match before it (no pattern matches "").
RECURSIVE FindAllFrom(_, _, _)
FoundFrom(r, s, m) == IF m = <<>> THEN 0 ELSE 1 + FindAllFrom(r, s, m[2])

FindAllFrom(r, s, pos) == FoundFrom(r, s, Search(r, s, pos))

\* score of one label: the matches of its patterns from the k-th on
RECURSIVE MatchesFrom(_, _, _)
MatchesFrom(text_lower, patterns, k) ==
    IF k > Len(patterns) THEN 0
    ELSE FindAllFrom(patterns[k], text_lower, 0) + MatchesFrom(text_lower, patterns, k + 1)

\* max(scores, key=scores.get) over the labels with score > 0: the first
\* label of the dictionary with the highest score, None without a match.
MoreMatches(candidate, best) == IF candidate[2] > best[2] THEN candidate ELSE best

RECURSIVE BestPatternFrom(_, _, _, _)
BestPatternFrom(table, text_lower, k, best) ==
    IF k > Len(table) THEN best
    ELSE BestPatternFrom(table, text_lower, k + 1,
             MoreMatches(<<table[k].label, MatchesFrom(text_lower, table[k].patterns, 1)>>, best))

BestPattern(table, text_lower) == BestPatternFrom(table, text_lower, 1, <<NoLabel, 0>>)[1]

\* SmartLabelingAnalyzer._label_to_score, in tenths
_label_to_score(label, category) ==
    CASE category = "difficulty" ->
            (CASE label = "ji nan" -> 95 [] label = "nan" -> 75
               [] label = "zhong deng" -> 50 [] label = "yi" -> 25 [] OTHER -> 50)
      [] category = "course" ->
            (CASE label = "you xiu" -> 90 [] label = "liang hao" -> 75
               [] label = "yi ban" -> 50 [] label = "cha" -> 25 [] OTHER -> 50)
      [] category = "sentiment" ->
            (CASE label = "ji ji" -> 85 [] label = "zhong xing" -> 50
               [] label = "xiao ji" -> 15 [] OTHER -> 50)
      [] OTHER -> 50

\* The result of a source: {} of the source is EmptyResult; the scores of a
\* result are in tenths.
EmptyResult == [empty |-> TRUE]

SourceResult(difficulty_label, difficulty_score, course_label, course_score,
             sentiment_label, sentiment_score) ==
    [empty |-> FALSE,
     difficulty_label |-> difficulty_label, difficulty_score |-> difficulty_score,
     course_label |-> course_label, course_score |-> course_score,
     sentiment_label |-> sentiment_label, sentiment_score |-> sentiment_score]

\* the score of a dimension of the pattern source: 0.5 without a match
PatternScore(label, category) ==
    IF label = NoLabel THEN 5 ELSE _label_to_score(label, category)

PatternResult(difficulty, course, sentiment) ==
    SourceResult(difficulty, PatternScore(difficulty, "difficulty"),
                 course, PatternScore(course, "course"),
                 sentiment, PatternScore(sentiment, "sentiment"))

\* SmartLabelingAnalyzer._analyze_with_patterns
_analyze_with_patterns(text) ==
    PatternResult(BestPattern(difficulty_patterns, LowerStr(text)),
                  BestPattern(course_patterns, LowerStr(text)),
                  BestPattern(sentiment_patterns, LowerStr(text)))

\* A source that judges the sentiment only.
SentimentResult(sentiment_label, sentiment_score) ==
    SourceResult(NoLabel, 50, NoLabel, 50, sentiment_label, sentiment_score)

\* SmartLabelingAnalyzer._analyze_with_textblob; the answer of TextBlob is
\* that it raises, or its polarity in tenths (-10 .. 10).
_analyze_with_textblob(answer) ==
    IF answer.raises THEN EmptyResult
    ELSE SentimentResult(IF answer.polarity > 1 THEN "ji ji"
                         ELSE IF answer.polarity < -1 THEN "xiao ji" ELSE "zhong xing",
                         (answer.polarity + 10) * 5)

\* SmartLabelingAnalyzer._analyze_with_vader; the answer of VADER is that
\* it raises, or its compound score in hundredths (-100 .. 100, even).
_analyze_with_vader(answer) ==
    IF answer.raises THEN EmptyResult
    ELSE SentimentResult(IF answer.compound >= 5 THEN "ji ji"
                         ELSE IF answer.compound <= -5 THEN "xiao ji" ELSE "zhong xing",
                         (answer.compound + 100) \div 2)

\* SmartLabelingAnalyzer._analyze_with_transformers; the answer of the
\* pipeline is that it raises, or a label in upper case and a score in tenths.
_analyze_with_transformers(answer) ==
    IF answer.raises THEN EmptyResult
    ELSE IF answer.label \in {"POSITIVE", "POS"}
         THEN SentimentResult("ji ji", 60 + answer.score * 4)
    ELSE IF answer.label \in {"NEGATIVE", "NEG"}
         THEN SentimentResult("xiao ji", 40 - answer.score * 4)
    ELSE SentimentResult("zhong xing", 50)

\* SmartLabelingAnalyzer._analyze_with_llm; the answer of the client is that
\* the call raises, a text that is not JSON, or a JSON object; float() of a
\* score that is null raises, and every exception gives {}.
_analyze_with_llm(answer) ==
    IF answer.raises \/ ~answer.json \/ answer.null_score THEN EmptyResult
    ELSE SourceResult(answer.difficulty_label, answer.difficulty_score,
                      answer.course_label, answer.course_score,
                      answer.sentiment_label, answer.sentiment_score)

\* weights of _merge_results, in tenths
weights(method) ==
    CASE method = "pattern" -> 7 [] method = "textblob" -> 4 [] method = "vader" -> 5
      [] method = "transformers" -> 6 [] method = "llm" -> 10 [] OTHER -> 5

\* target[key] of a score after the merge of source[key] (in tenths)
MergedScore(target_score, source_score, weight) ==
    IF target_score = 0 THEN source_score * weight * (ScoreUnit \div 100)
    ELSE (target_score + source_score * weight * (ScoreUnit \div 100)) \div 2

\* A merge that takes every label that a source supplies.
LatestLabel(target_label, source_label, weight) ==
    IF source_label # NoLabel THEN source_label ELSE target_label

\* target[key] of a label after the merge of source[key]
MergedLabel(target_label, source_label, weight) ==
    IF source_label # NoLabel /\ (target_label = NoLabel \/ weight > 5)
    THEN source_label ELSE target_label

Merged(target, source, method) ==
    [difficulty_label |-> MergedLabel(target.difficulty_label, source.difficulty_label, weights(method)),
     difficulty_score |-> MergedScore(target.difficulty_score, source.difficulty_score, weights(method)),
     course_label |-> MergedLabel(target.course_label, source.course_label, weights(method)),
     course_score |-> MergedScore(target.course_score, source.course_score, weights(method)),
     sentiment_label |-> MergedLabel(target.sentiment_label, source.sentiment_label, weights(method)),
     sentiment_score |-> MergedScore(target.sentiment_score, source.sentiment_score, weights(method)),
     confidence |-> target.confidence,
     method_used |-> Append(target.method_used, method)]

\* A merge that lists the method of an empty result too.
MergeListed(target, source, method) ==
    IF source.empty THEN [target EXCEPT !.method_used = Append(@, method)]
    ELSE Merged(target, source, method)

\* SmartLabelingAnalyzer._merge_results: target after the call
_merge_results(target, source, method) ==
    IF source.empty THEN target ELSE Merged(target, source, method)

top_universities == <<<<"h", "a", "r", "v", "a", "r", "d">>,
    <<"m", "i", "t">>,
    <<"s", "t", "a", "n", "f", "o", "r", "d">>,
    <<"p", "r", "i", "n", "c", "e", "t", "o", "n">>,
    <<"y", "a", "l", "e">>,
    <<"c", "a", "l", "t", "e", "c", "h">>>>
positive_academic == <<<<"e", "x", "c", "e", "l", "l", "e", "n", "t", " ", "p", "r", "o", "g", "r", "a", "m">>,
    <<"o", "u", "t", "s", "t", "a", "n", "d", "i", "n", "g">>,
    <<"t", "o", "p", "-", "t", "i", "e", "r">>,
    <<"w", "o", "r", "l", "d", "-", "c", "l", "a", "s", "s">>,
    <<"p", "r", "e", "s", "t", "i", "g", "i", "o", "u", "s">>>>
stress_indicators == <<<<"s", "t", "r", "e", "s", "s", "f", "u", "l">>,
    <<"o", "v", "e", "r", "w", "h", "e", "l", "m", "i", "n", "g">>,
    <<"b", "u", "r", "n", "e", "d", " ", "o", "u", "t">>,
    <<"e", "x", "h", "a", "u", "s", "t", "e", "d">>,
    <<"p", "r", "e", "s", "s", "u", "r", "e">>>>
success_indicators == <<<<"g", "o", "t", " ", "a", "c", "c", "e", "p", "t", "e", "d">>,
    <<"a", "d", "m", "i", "t", "t", "e", "d">>,
    <<"g", "o", "t", " ", "i", "n">>,
    <<"a", "c", "c", "e", "p", "t", "e", "d", " ", "t", "o">>,
    <<"d", "r", "e", "a", "m", " ", "s", "c", "h", "o", "o", "l">>>>

\* min(score + step, 10.0) and max(score - step, 0.0), step in tenths
Raised(score, step) ==
    IF score + Tenths(step) > Tenths(100) THEN Tenths(100) ELSE score + Tenths(step)
Lowered(score, step) ==
    IF score - Tenths(step) < 0 THEN 0 ELSE score - Tenths(step)

\* Boost difficulty scores for top universities
AdjustDifficulty(results, text_lower) ==
    IF AnyIn(top_universities, text_lower) /\ results.difficulty_score < Tenths(80)
    THEN [results EXCEPT
            !.difficulty_score = Raised(@, 15),
            !.difficulty_label = IF Raised(results.difficulty_score, 15) >= Tenths(85)
                                 THEN "ji nan" ELSE "nan"]
    ELSE results

\* Boost course scores for positive academic terms
AdjustCourse(results, text_lower) ==
    IF AnyIn(positive_academic, text_lower) /\ results.course_score < Tenths(80)
    THEN [results EXCEPT
            !.course_score = Raised(@, 10),
            !.course_label = IF Raised(results.course_score, 10) >= Tenths(80)
                             THEN "you xiu" ELSE "liang hao"]
    ELSE results

\* Adjust sentiment for academic stress indicators
AdjustStress(results, text_lower) ==
    IF AnyIn(stress_indicators, text_lower) /\ results.sentiment_score > Tenths(40)
    THEN [results EXCEPT
            !.sentiment_score = Lowered(@, 15),
            !.sentiment_label = IF Lowered(results.sentiment_score, 15) <= Tenths(30)
                                THEN "xiao ji" ELSE @]
    ELSE results

\* A boost for success stories at any score.
SuccessUnguarded(results, text_lower) ==
    IF AnyIn(success_indicators, text_lower)
    THEN [results EXCEPT !.sentiment_score = Raised(@, 20), !.sentiment_label = "ji ji"]
    ELSE results

\* Boost positive sentiment for success stories
AdjustSuccess(results, text_lower) ==
    IF AnyIn(success_indicators, text_lower) /\ results.sentiment_score < Tenths(70)
    THEN [results EXCEPT !.sentiment_score = Raised(@, 20), !.sentiment_label = "ji ji"]
    ELSE results

\* SmartLabelingAnalyzer._apply_academic_adjustments
_apply_academic_adjustments(results, text) ==
    AdjustSuccess(AdjustStress(AdjustCourse(AdjustDifficulty(results, LowerStr(text)),
                                            LowerStr(text)), LowerStr(text)), LowerStr(text))

\* min(x, 1.0) in hundredths
AtMostHundred(x) == IF x > 100 THEN 100 ELSE x

\* The confidence without its last min.
Uncapped(method_used) ==
    AtMostHundred(Len(method_used) * 25)
    + (IF \E k \in 1..Len(method_used) : method_used[k] = "llm" THEN 30 ELSE 0)
    + (IF \E k \in 1..Len(method_used) : method_used[k] = "transformers" THEN 20 ELSE 0)

\* The confidence of the methods used, in hundredths.
Confidence(method_used) == AtMostHundred(Uncapped(method_used))

\* SmartLabelingAnalyzer._calculate_confidence
_calculate_confidence(results) == Confidence(results.method_used)

\* results of analyze_comprehensive before the first source
InitialResults ==
    [difficulty_label |-> NoLabel, difficulty_score |-> 0,
     course_label |-> NoLabel, course_score |-> 0,
     sentiment_label |-> NoLabel, sentiment_score |-> 0,
     confidence |-> 0, method_used |-> <<>>]

\* One source of analyze_comprehensive: its result is merged if it runs.
WithSource(results, method, runs, source_result) ==
    IF runs THEN _merge_results(results, source_result, method) ELSE results

\* results after the five sources, in the order of the code; pattern_result
\* is _analyze_with_patterns(text), loaded are the sources whose model or
\* client the constructor has set.
MergedSources(pattern_result, methods, loaded, answers) ==
    WithSource(
      WithSource(
        WithSource(
          WithSource(
            WithSource(InitialResults, "pattern", "pattern" \in methods, pattern_result),
            "textblob", "textblob" \in methods /\ "textblob" \in loaded,
            _analyze_with_textblob(answers.textblob)),
          "vader", "vader" \in methods /\ "vader" \in loaded,
          _analyze_with_vader(answers.vader)),
        "transformers", "transformers" \in methods /\ "transformers" \in loaded,
        _analyze_with_transformers(answers.transformers)),
      "llm", "llm" \in methods /\ "llm" \in loaded,
      _analyze_with_llm(answers.llm))

\* results['confidence'] = self._calculate_confidence(results)
WithConfidence(results) == [results EXCEPT !.confidence = _calculate_confidence(results)]

Analyzed(text, pattern_result, methods, loaded, answers) ==
    WithConfidence(_apply_academic_adjustments(
        MergedSources(pattern_result, methods, loaded, answers), text))

\* SmartLabelingAnalyzer.analyze_comprehensive
analyze_comprehensive(text, methods, loaded, answers) ==
    Analyzed(text, _analyze_with_patterns(text), methods, loaded, answers)

(***************************************************************************)
(* The analyzer as a state machine: a SmartLabelingAnalyzer is constructed *)
(* for a configuration in an environment, and analyzes texts.              *)
(***************************************************************************)
\* Harvard is nearly impossible
HarvardImpossible ==
    <<"H", "a", "r", "v", "a", "r", "d", " ", "i", "s", " ", "n", "e", "a", "r", "l", "y", " ",
      "i", "m", "p", "o", "s", "s", "i", "b", "l", "e">>
\* A prestigious program
PrestigiousProgram ==
    <<"A", " ", "p", "r", "e", "s", "t", "i", "g", "i", "o", "u", "s", " ", "p", "r", "o", "g",
      "r", "a", "m">>
\* It was impossible for me
WasImpossible ==
    <<"I", "t", " ", "w", "a", "s", " ", "i", "m", "p", "o", "s", "s", "i", "b", "l", "e", " ",
      "f", "o", "r", " ", "m", "e">>
\* I love it but it is so stressful
LoveStressful ==
    <<"I", " ", "l", "o", "v", "e", " ", "i", "t", " ", "b", "u", "t", " ", "i", "t", " ", "i",
      "s", " ", "s", "o", " ", "s", "t", "r", "e", "s", "s", "f", "u", "l">>
\* Got admitted, what a good and solid course
GotAdmitted ==
    <<"G", "o", "t", " ", "a", "d", "m", "i", "t", "t", "e", "d", ",", " ", "w", "h", "a", "t",
      " ", "a", " ", "g", "o", "o", "d", " ", "a", "n", "d", " ", "s", "o", "l", "i", "d", " ",
      "c", "o", "u", "r", "s", "e">>

\* Got admitted to Stanford but it was stressful
AdmittedStanford ==
    <<"G", "o", "t", " ", "a", "d", "m", "i", "t", "t", "e", "d", " ", "t", "o", " ", "S",
      "t", "a", "n", "f", "o", "r", "d", " ", "b", "u", "t", " ", "i", "t", " ", "w", "a", "s",
      " ", "s", "t", "r", "e", "s", "s", "f", "u", "l">>

AnalyzerTexts ==
    {NoTitle, DifficultMIT, ExcellentCourse, HarvardImpossible, PrestigiousProgram,
     WasImpossible, LoveStressful, GotAdmitted, AdmittedStanford}

\* _analyze_with_patterns of every text of the model
PatternResults == [text \in AnalyzerTexts |-> _analyze_with_patterns(text)]

Methods == {"pattern", "textblob", "vader", "transformers", "llm"}
\* the sources that need a library or a client
Optional == Methods \ {"pattern"}

\* smart_labeling of the configuration: with or without the key methods
AnalyzerConfigs ==
    {[given |-> FALSE, methods |-> {}]} \cup [given : {TRUE}, methods : SUBSET Methods]

\* labeling_config.get('methods', ['textblob']) of _initialize_models
InitializedMethods(cfg) == IF cfg.given THEN cfg.methods ELSE {"textblob"}
\* labeling_config.get('methods', ['pattern']) of analyze_comprehensive
AnalysisMethods(cfg) == IF cfg.given THEN cfg.methods ELSE {"pattern"}

\* SmartLabelingAnalyzer._initialize_models: a source is loaded if it is
\* configured and the environment has it (the library is installed and its
\* model loads; the LLM is enabled, has a key and its client library).
_initialize_models(cfg, installed) == InitializedMethods(cfg) \cap installed

\* What the black boxes can answer.
TextblobAnswers ==
    {[raises |-> TRUE, polarity |-> 0], [raises |-> FALSE, polarity |-> 6],
     [raises |-> FALSE, polarity |-> -10]}
VaderAnswers == {[raises |-> TRUE, compound |-> 0], [raises |-> FALSE, compound |-> 50]}
TransformersAnswers ==
    {[raises |-> TRUE, label |-> "", score |-> 0],
     [raises |-> FALSE, label |-> "POSITIVE", score |-> 9],
     [raises |-> FALSE, label |-> "NEGATIVE", score |-> 10]}
LlmAnswer(raises, json, null_score) ==
    [raises |-> raises, json |-> json, null_score |-> null_score,
     difficulty_label |-> "nan", difficulty_score |-> 75,
     course_label |-> NoLabel, course_score |-> 50,
     sentiment_label |-> "xiao ji", sentiment_score |-> 20]
\* An answer of the LLM with scores at the top of the scale and at 0.
LlmPraise ==
    [raises |-> FALSE, json |-> TRUE, null_score |-> FALSE,
     difficulty_label |-> "ji nan", difficulty_score |-> 95,
     course_label |-> "cha", course_score |-> 0,
     sentiment_label |-> "ji ji", sentiment_score |-> 100]
LlmAnswers ==
    {LlmAnswer(TRUE, FALSE, FALSE), LlmAnswer(FALSE, FALSE, FALSE),
     LlmAnswer(FALSE, TRUE, TRUE), LlmAnswer(FALSE, TRUE, FALSE), LlmPraise}

\* The sources that analyze_comprehensive calls.
Asked(methods, loaded) == methods \cap loaded

\* The answers of one analysis: one of each source that is asked.
AnswersFor(asked) ==
    [textblob : IF "textblob" \in asked THEN TextblobAnswers ELSE {[raises |-> TRUE, polarity |-> 0]},
     vader : IF "vader" \in asked THEN VaderAnswers ELSE {[raises |-> TRUE, compound |-> 0]},
     transformers : IF "transformers" \in asked THEN TransformersAnswers
                    ELSE {[raises |-> TRUE, label |-> "", score |-> 0]},
     llm : IF "llm" \in asked THEN LlmAnswers ELSE {LlmAnswer(TRUE, FALSE, FALSE)}]

InitAnalyzer ==
    /\ a_pc = "new"
    /\ a_methods \in AnalyzerConfigs
    /\ a_loaded = <<>> /\ a_text = <<>> /\ a_answers = <<>> /\ a_merged = <<>> /\ a_results = <<>>
    /\ NormIdle /\ ResolverIdle /\ SimilarityIdle /\ DetectorIdle /\ LabelerIdle /\ StoreIdle

\* SmartLabelingAnalyzer(config_path) in an environment
ConstructAnalyzer ==
    /\ a_pc = "new"
    /\ \E installed \in SUBSET Optional :
          a_loaded' = _initialize_models(a_methods, installed)
    /\ a_pc' = "ready"
    /\ UNCHANGED <<a_methods, a_text, a_answers, a_merged, a_results>>
    /\ UNCHANGED outsideAnalyzer

\* analyze_comprehensive(text).  An analysis changes nothing of the analyzer,
\* so a behaviour follows one analysis of each analyzer.
AnalyzeComprehensive ==
    /\ a_pc = "ready"
    /\ \E text \in AnalyzerTexts :
       \E answers \in AnswersFor(Asked(AnalysisMethods(a_methods), a_loaded)) :
          /\ a_text' = text
          /\ a_answers' = answers
          /\ a_merged' = MergedSources(PatternResults[text], AnalysisMethods(a_methods),
                                       a_loaded, answers)
          /\ a_results' = Analyzed(text, PatternResults[text], AnalysisMethods(a_methods),
                                   a_loaded, answers)
    /\ a_pc' = "analyzed"
    /\ UNCHANGED <<a_methods, a_loaded>>
    /\ UNCHANGED outsideAnalyzer

NextAnalyzer == ConstructAnalyzer \/ AnalyzeComprehensive

SpecAnalyzer == InitAnalyzer /\ [][NextAnalyzer]_vars

(***************************************************************************)
(* Claims about SmartLabelingAnalyzer                                      *)
(***************************************************************************)
\* The sources that contributed to the last analysis.
Contributing == {a_results.method_used[k] : k \in 1..Len(a_results.method_used)}

\* min(1, min(1, 0.25 n) + 0.3 with the LLM + 0.2 with transformers), in
\* hundredths, for a set of contributing sources
ClaimedConfidence(S) ==
    AtMostHundred(AtMostHundred(25 * Cardinality(S))
                  + (IF "llm" \in S THEN 30 ELSE 0)
                  + (IF "transformers" \in S THEN 20 ELSE 0))

\* C10: the confidence of an analysis is min(1, min(1, 0.25 n) + 0.3 if the
\* LLM contributed + 0.2 if transformers contributed) for its n contributing
\* sources, it lies in [0, 1], and the confidence of the contributing
\* sources plus any further source is at least as high.
C10_ConfidenceBoundedMonotone ==
    a_pc = "analyzed" =>
        /\ Cardinality(Contributing) = Len(a_results.method_used)
        /\ a_results.confidence = ClaimedConfidence(Contributing)
        /\ a_results.confidence >= 0 /\ a_results.confidence <= 100
        /\ \A m \in Methods \ Contributing :
              Confidence(Append(a_results.method_used, m)) >= a_results.confidence

\* Four sources contributed, the LLM and transformers among them: the sum
\* 1.0 + 0.3 + 0.2 is cut to 1.0.
C10_Witness ==
    /\ a_pc = "analyzed"
    /\ Cardinality(Contributing) = 4 /\ {"llm", "transformers"} \subseteq Contributing
    /\ a_results.confidence = 100

\* The result of an optional source for the answers of an analysis.
ResultOf(method, answers) ==
    CASE method = "textblob" -> _analyze_with_textblob(answers.textblob)
      [] method = "vader" -> _analyze_with_vader(answers.vader)
      [] method = "transformers" -> _analyze_with_transformers(answers.transformers)
      [] method = "llm" -> _analyze_with_llm(answers.llm)

\* A configured source that is unavailable, or raises during the analysis.
FailsOpen(method) ==
    /\ method \in AnalysisMethods(a_methods) \cap Optional
    /\ method \notin a_loaded \/ a_answers[method].raises

\* A configured source that gave a result in the analysis.
GaveResult(method) ==
    /\ method \in AnalysisMethods(a_methods)
    /\ \/ method = "pattern"
       \/ method \in a_loaded /\ ~ResultOf(method, a_answers).empty

\* C11: fail-open per source. When a configured source is unavailable or
\* raises during analyze_comprehensive, the result (scores, labels, methods
\* used, confidence) is the result of the same analysis without that source
\* in the configuration, and every other source that gives a result has
\* contributed.
C11_FailOpenPerSource ==
    a_pc = "analyzed" =>
        \A m \in Methods : FailsOpen(m) =>
            /\ a_results = Analyzed(a_text, PatternResults[a_text],
                                    AnalysisMethods(a_methods) \ {m}, a_loaded, a_answers)
            /\ \A other \in Methods \ {m} : GaveResult(other) => other \in Contributing

\* TextBlob raises, transformers is configured and not loaded, and the
\* sources after them, VADER and the LLM, contribute.
C11_Witness ==
    /\ a_pc = "analyzed"
    /\ "textblob" \in a_loaded /\ FailsOpen("textblob")
    /\ "transformers" \notin a_loaded /\ FailsOpen("transformers")
    /\ a_results.method_used = <<"pattern", "vader", "llm">>

\* Only the pattern source is enabled.
PatternOnly == AnalysisMethods(a_methods) = {"pattern"}

\* C13: a dimension with no signal gets no label and does not block the
\* others. With only the pattern source enabled, a text in which no
\* course-evaluation pattern matches gets no course label, and a text in
\* which the patterns of the top difficulty level have the most matches gets
\* that level, with a confidence above 0.
C13_NoSignalNoLabel ==
    (a_pc = "analyzed" /\ PatternOnly) =>
        /\ PatternResults[a_text].course_label = NoLabel => a_results.course_label = NoLabel
        /\ PatternResults[a_text].difficulty_label = "ji nan" =>
              a_results.difficulty_label = "ji nan" /\ a_results.confidence > 0

\* A dimension has a viable source if a source that judges it is configured
\* and available: the patterns and the LLM judge every dimension, TextBlob,
\* VADER and transformers the sentiment only.
Viable(methods, loaded) == "pattern" \in methods \/ "llm" \in methods \cap loaded

\* C20: configuration errors are fatal at startup. An analyzer that has been
\* constructed has a viable source for every dimension; an analysis never
\* returns without a label and with confidence 0 for want of a source.
C20_ConfigurationErrorsFatal ==
    a_pc \in {"ready", "analyzed"} => Viable(AnalysisMethods(a_methods), a_loaded)

(***************************************************************************)
(* The store: the posts table under save_api_post_data, process_all_posts, *)
(* remove_invalid_data and label_all_posts of one process                  *)
(***************************************************************************)
\* The number of calls of entry points in a behaviour, and the number of
\* times the process can stop inside process_all_posts.
MaxCalls == 3
MaxCrashes == 1

\* The arguments of save_api_post_data: posts a1, a2, a3 of different
\* content, a4 with the title and content of a1, and a1 with other content.
Submission(post_id, title, post_content) ==
    [post_id |-> post_id, title |-> title, post_content |-> post_content, comments |-> <<>>]
Submissions ==
    {Submission("a1", ResultsTitle, BothAccepted), Submission("a2", ResultsTitle, BothAcceptedLink),
     Submission("a3", ResultsTitle, ThanksThanks), Submission("a4", ResultsTitle, BothAccepted),
     Submission("a1", ResultsTitle, ThanksThanks)}

\* all_content and all_comments of save_api_post_data
AllContent(post_content, comments) ==
    IF Strip(post_content) # <<>> THEN <<Strip(post_content)>> \o comments ELSE comments
AllComments(submission) ==
    Join(AllContent(submission.post_content, submission.comments), <<"\n">>)

\* The row that the INSERT of save_api_post_data writes; the other columns
\* are NULL.
InsertedRow(submission) ==
    [post_id |-> submission.post_id, question_title |-> clean_text(submission.title),
     answer_content_raw |-> AllComments(submission),
     answer_content_cleaned |-> clean_text(AllComments(submission)), has_content |-> TRUE,
     content_hash |-> generate_content_hash(submission.title \o AllComments(submission)),
     processed_at |-> FALSE, university_name |-> <<>>, major_name |-> <<>>,
     program_name |-> <<>>, key_content |-> <<>>,
     difficulty_label |-> NoLabel, course_evaluation_label |-> NoLabel,
     sentiment_label |-> NoLabel, sentiment_score |-> <<>>]
InsertedRows == [submission \in Submissions |-> InsertedRow(submission)]

\* A check query that finds nothing.
NoneExisting(posts, content_hash) == {}

\* existing: SELECT id FROM posts WHERE content_hash = ?
Existing(posts, content_hash) == {id \in DOMAIN posts : posts[id].content_hash = content_hash}

\* post_id TEXT UNIQUE: the INSERT of a post_id that is stored fails.
UniqueViolated(posts, post_id) == \E id \in DOMAIN posts : posts[id].post_id = post_id

\* An id generator that gives the greatest stored id plus one.
ReusedId(posts, next) ==
    IF DOMAIN posts = {} THEN 1
    ELSE (CHOOSE id \in DOMAIN posts : \A other \in DOMAIN posts : other <= id) + 1

\* id INTEGER PRIMARY KEY AUTOINCREMENT: the id of the row inserted next.
NextId(posts, next) == next

\* The table after save_api_post_data: nothing is inserted when the hash is
\* stored or when the INSERT raises.
Saved(posts, next, row, outcome) ==
    IF Existing(posts, row.content_hash) # {} \/ outcome # "ok" \/ UniqueViolated(posts, row.post_id)
    THEN posts
    ELSE [id \in DOMAIN posts \cup {NextId(posts, next)} |->
            IF id = NextId(posts, next) THEN row ELSE posts[id]]

\* extract_entities of a DataProcessor without smart extractor
extract_entities(text) == FallbackResults(text)

\* The values of the UPDATE of process_all_posts for cleaned_content,
\* key_content and the entities in each of the orders they can be listed in.
UpdateValues(cleaned_content, key_content, results) ==
    {[answer_content_cleaned |-> cleaned_content,
      university_name |-> Join(FirstThree(entities.universities), <<",", " ">>),
      major_name |-> Join(FirstThree(entities.majors), <<",", " ">>),
      program_name |-> Join(FirstThree(entities.programs), <<",", " ">>),
      key_content |-> key_content] : entities \in results}

\* The body of the loop of process_all_posts from cleaned_content and
\* cleaned_title on.
Processed(cleaned_title, cleaned_content) ==
    UpdateValues(cleaned_content, extract_key_content(cleaned_content),
                 extract_entities(cleaned_title \o <<" ">> \o cleaned_content))

\* The values process_all_posts can write for a post.
ProcessedFields(title, raw_content) ==
    Processed(clean_and_normalize_text(title), clean_and_normalize_text(raw_content))
ProcessedOf ==
    [title \in {clean_text(t) : t \in StoreTitles} |->
        [raw_content \in StoreRaws |-> ProcessedFields(title, raw_content)]]

\* An UPDATE that does not set processed_at.
NotMarked(row, fields) ==
    [row EXCEPT !.answer_content_cleaned = fields.answer_content_cleaned,
                !.university_name = fields.university_name,
                !.major_name = fields.major_name,
                !.program_name = fields.program_name,
                !.key_content = fields.key_content]

\* The UPDATE of process_all_posts.
UpdateProcessed(row, fields) ==
    [row EXCEPT !.answer_content_cleaned = fields.answer_content_cleaned,
                !.university_name = fields.university_name,
                !.major_name = fields.major_name,
                !.program_name = fields.program_name,
                !.key_content = fields.key_content,
                !.processed_at = TRUE]

\* A query that selects every post.
AllStored(posts) == DOMAIN posts

\* The query of process_all_posts: WHERE processed_at IS NULL
Unprocessed(posts) == {id \in DOMAIN posts : ~posts[id].processed_at}

\* run_full_pipeline calls the entry points in the order scrape, process,
\* remove, label; the scraper saves many posts.
StageOf(op) ==
    CASE op = "save_api_post_data" -> 1
      [] op = "process_all_posts" -> 2
      [] op = "remove_invalid_data" -> 3
      [] op = "label_all_posts" -> 4
      [] OTHER -> 0
InOrder(last, op) == StageOf(last) < StageOf(op) \/ (last = op /\ op = "save_api_post_data")

\* The ids of a set of <<id, post_id>>.
IdsOf(removed) == {r[1] : r \in removed}

\* The configurations of the store: labeling.confidence_threshold in
\* hundredths and processing.enable_language_filter.
StoreConfigs ==
    {[confidence_threshold |-> 0, enable_language_filter |-> FALSE],
     [confidence_threshold |-> 70, enable_language_filter |-> TRUE]}

\* The table after save_api_post_data of a1 and a3: the database keeps the
\* posts of earlier runs of the scraper.
ScrapedTable ==
    Saved(Saved(<<>>, 1, InsertedRows[Submission("a1", ResultsTitle, BothAccepted)], "ok"),
          2, InsertedRows[Submission("a3", ResultsTitle, ThanksThanks)], "ok")

NotStarted == [started |-> FALSE, ids |-> {}]
NoSubmission == [post_id |-> "", content_hash |-> ""]

InitStore ==
    /\ p_pc = "ready"
    /\ p_cfg \in StoreConfigs
    /\ p_posts \in {<<>>, ScrapedTable}
    /\ p_next = Cardinality(DOMAIN p_posts) + 1
    /\ p_batch = <<>>
    /\ p_count = 0
    /\ p_op = "none"
    /\ p_inorder = TRUE
    /\ p_ncalls = 0
    /\ p_removed = {}
    /\ p_outcomes = <<>>
    /\ p_touched = {}
    /\ p_gone = {}
    /\ p_raised = FALSE
    /\ p_first = NotStarted
    /\ p_writes = [id \in DOMAIN p_posts |-> 0]
    /\ p_crashes = 0
    /\ p_failed = {}
    /\ p_before = <<>>
    /\ p_submitted = NoSubmission
    /\ p_prev = [op |-> "none", ended |-> "ok"]
    /\ NormIdle /\ ResolverIdle /\ SimilarityIdle /\ DetectorIdle /\ LabelerIdle /\ AnalyzerIdle

\* An entry point is called.
Called(op) ==
    /\ p_pc = "ready"
    /\ p_ncalls < MaxCalls
    /\ p_ncalls' = p_ncalls + 1
    /\ p_op' = op
    /\ p_inorder' = (p_inorder /\ InOrder(p_op, op))
    /\ p_before' = p_posts
    /\ p_prev' = [op |-> p_op,
                   ended |-> IF p_raised THEN "raised"
                             ELSE IF \E id \in DOMAIN p_outcomes : p_outcomes[id] # "ok"
                             THEN "failed" ELSE "ok"]

\* save_api_post_data(post_id, subreddit, title, post_content, comments,
\* post_url): the check query can raise; an exception of the INSERT is
\* logged.
SaveApiPostData ==
    /\ Called("save_api_post_data")
    /\ \E submission \in Submissions, outcome \in {"ok", "insert raises", "query raises"} :
          /\ p_submitted' = [post_id |-> submission.post_id,
                             content_hash |-> InsertedRows[submission].content_hash]
          /\ p_raised' = (outcome = "query raises")
          /\ \E saved \in {Saved(p_posts, p_next, InsertedRows[submission], outcome)} :
                /\ p_posts' = saved
                /\ p_next' = IF DOMAIN saved = DOMAIN p_posts THEN p_next ELSE p_next + 1
                /\ p_writes' = [id \in DOMAIN saved |->
                                  IF id \in DOMAIN p_posts THEN p_writes[id] ELSE 0]
    /\ p_touched' = {}
    /\ p_gone' = IdsOf(p_removed)
    /\ UNCHANGED <<p_pc, p_cfg, p_batch, p_count, p_removed, p_outcomes, p_first, p_crashes, p_failed>>
    /\ UNCHANGED outsideStore

\* process_all_posts(): the query raises to the caller.
ProcessQueryRaises ==
    /\ Called("process_all_posts")
    /\ p_raised' = TRUE
    /\ p_batch' = <<>>
    /\ p_outcomes' = <<>>
    /\ p_touched' = {}
    /\ p_gone' = IdsOf(p_removed)
    /\ UNCHANGED <<p_pc, p_cfg, p_posts, p_next, p_count, p_removed, p_first, p_writes, p_crashes,
                   p_failed, p_submitted>>
    /\ UNCHANGED outsideStore

\* process_all_posts(): the query returns the unprocessed posts in some
\* order, and the loop starts.
ProcessStart ==
    /\ Called("process_all_posts")
    /\ p_pc' = "processing"
    /\ p_raised' = FALSE
    /\ \E order \in ListsOf(Unprocessed(p_posts)) : p_batch' = order
    /\ p_outcomes' = <<>>
    /\ p_count' = 0
    /\ p_touched' = {}
    /\ p_gone' = IdsOf(p_removed)
    /\ p_first' = IF p_first.started THEN p_first
                  ELSE [started |-> TRUE, ids |-> Unprocessed(p_posts)]
    /\ UNCHANGED <<p_cfg, p_posts, p_next, p_removed, p_writes, p_crashes, p_failed, p_submitted>>
    /\ UNCHANGED outsideStore

ProcessAllPosts == ProcessQueryRaises \/ ProcessStart

\* The post the loop of process_all_posts is at.
Current == p_batch[Cardinality(DOMAIN p_outcomes) + 1]

\* outcomes with the outcome of post id
WithOutcome(outcomes, id, outcome) ==
    [i \in DOMAIN outcomes \cup {id} |-> IF i = id THEN outcome ELSE outcomes[i]]

\* One pass of the loop of process_all_posts: the post is normalized, its
\* entities and key content are extracted and the UPDATE commits; an
\* exception of the computation or of the UPDATE is logged and the loop
\* goes on.
ProcessPost ==
    /\ p_pc = "processing"
    /\ Cardinality(DOMAIN p_outcomes) < Len(p_batch)
    /\ \E outcome \in BatchOutcomes :
          /\ p_outcomes' = WithOutcome(p_outcomes, Current, outcome)
          /\ IF outcome = "ok"
             THEN /\ \E fields \in ProcessedOf[p_posts[Current].question_title][p_posts[Current].answer_content_raw] :
                        p_posts' = [p_posts EXCEPT ![Current] = UpdateProcessed(@, fields)]
                  /\ p_count' = p_count + 1
                  /\ p_writes' = [p_writes EXCEPT ![Current] = @ + 1]
                  /\ p_failed' = p_failed
             ELSE /\ p_failed' = p_failed \cup {Current}
                  /\ UNCHANGED <<p_posts, p_count, p_writes>>
    /\ p_touched' = {Current}
    /\ p_gone' = IdsOf(p_removed)
    /\ UNCHANGED <<p_pc, p_cfg, p_next, p_batch, p_op, p_inorder, p_ncalls, p_removed, p_raised,
                   p_first, p_crashes, p_before, p_submitted, p_prev>>
    /\ UNCHANGED outsideStore

\* process_all_posts returns processed_count.
ProcessReturn ==
    /\ p_pc = "processing"
    /\ Cardinality(DOMAIN p_outcomes) = Len(p_batch)
    /\ p_pc' = "ready"
    /\ UNCHANGED <<p_cfg, p_posts, p_next, p_batch, p_count, p_op, p_inorder, p_ncalls, p_removed,
                   p_outcomes, p_touched, p_gone, p_raised, p_first, p_writes, p_crashes, p_failed,
                   p_before, p_submitted, p_prev>>
    /\ UNCHANGED outsideStore

\* The ids that a call of remove_invalid_data deleted.
Deleted(before, after) == DOMAIN before \ DOMAIN after

\* remove_invalid_data(): the length filter, the language filter, then the
\* second record of every duplicate pair is deleted; it returns the number
\* of rows deleted.
StoreRemoveInvalidData ==
    /\ Called("remove_invalid_data")
    /\ \E gone \in LanguageDeletions(p_cfg, DeleteIds(p_posts, InvalidLength(p_posts))) :
       \E order \in ListsOf(Candidates(DeleteIds(DeleteIds(p_posts, InvalidLength(p_posts)), gone))) :
          /\ p_posts' = WithoutDuplicates(DeleteIds(DeleteIds(p_posts, InvalidLength(p_posts)), gone), order)
          /\ p_touched' = SeqToSet(order)
          /\ p_gone' = IdsOf(p_removed) \cup InvalidLength(p_posts) \cup gone
    /\ p_count' = Cardinality(Deleted(p_posts, p_posts'))
    /\ p_removed' = p_removed \cup {<<id, p_posts[id].post_id>> : id \in Deleted(p_posts, p_posts')}
    /\ p_raised' = FALSE
    /\ p_batch' = <<>>
    /\ p_outcomes' = <<>>
    /\ UNCHANGED <<p_pc, p_cfg, p_next, p_first, p_writes, p_crashes, p_failed, p_submitted>>
    /\ UNCHANGED outsideStore

\* label_all_posts(): the query raises to the caller; or it returns the
\* posts in some order, and an exception of a post is logged.
StoreLabelAllPosts ==
    /\ Called("label_all_posts")
    /\ \/ /\ p_raised' = TRUE
          /\ p_batch' = <<>>
          /\ p_outcomes' = <<>>
          /\ p_touched' = {}
          /\ UNCHANGED <<p_posts, p_count>>
       \/ /\ p_raised' = FALSE
          /\ \E order \in ListsOf(Unlabeled(p_posts)), outcome \in [Unlabeled(p_posts) -> BatchOutcomes] :
                /\ p_batch' = order
                /\ p_outcomes' = outcome
                /\ \E labeled \in {label_all_posts(p_posts, order, outcome, p_cfg.confidence_threshold)} :
                      /\ p_posts' = labeled.posts
                      /\ p_count' = labeled.count
          /\ p_touched' = Unlabeled(p_posts)
    /\ p_gone' = IdsOf(p_removed)
    /\ UNCHANGED <<p_pc, p_cfg, p_next, p_removed, p_first, p_writes, p_crashes, p_failed, p_submitted>>
    /\ UNCHANGED outsideStore

NextStore ==
    \/ SaveApiPostData
    \/ ProcessAllPosts
    \/ ProcessPost
    \/ ProcessReturn
    \/ StoreRemoveInvalidData
    \/ StoreLabelAllPosts

SpecStore == InitStore /\ [][NextStore]_vars

(***************************************************************************)
(* Recovery of process_all_posts: the process can stop inside the loop,    *)
(* and the batch is started again                                          *)
(***************************************************************************)
InitRecovery ==
    /\ p_pc = "ready"
    /\ p_cfg \in StoreConfigs
    /\ p_posts = ScrapedTable
    /\ p_next = Cardinality(DOMAIN p_posts) + 1
    /\ p_batch = <<>>
    /\ p_count = 0
    /\ p_op = "none"
    /\ p_inorder = TRUE
    /\ p_ncalls = 0
    /\ p_removed = {}
    /\ p_outcomes = <<>>
    /\ p_touched = {}
    /\ p_gone = {}
    /\ p_raised = FALSE
    /\ p_first = NotStarted
    /\ p_writes = [id \in DOMAIN p_posts |-> 0]
    /\ p_crashes = 0
    /\ p_failed = {}
    /\ p_before = <<>>
    /\ p_submitted = NoSubmission
    /\ p_prev = [op |-> "none", ended |-> "ok"]
    /\ NormIdle /\ ResolverIdle /\ SimilarityIdle /\ DetectorIdle /\ LabelerIdle /\ AnalyzerIdle

\* The process stops between two commits of the loop: every execute_update
\* commits on its own, and the database rolls back an UPDATE that was not
\* committed.
Crash ==
    /\ p_pc = "processing"
    /\ p_crashes < MaxCrashes
    /\ p_crashes' = p_crashes + 1
    /\ p_pc' = "ready"
    /\ p_batch' = <<>>
    /\ p_outcomes' = <<>>
    /\ p_count' = 0
    /\ UNCHANGED <<p_cfg, p_posts, p_next, p_op, p_inorder, p_ncalls, p_removed, p_touched, p_gone,
                   p_raised, p_first, p_writes, p_failed, p_before, p_submitted, p_prev>>
    /\ UNCHANGED outsideStore

NextRecovery == ProcessStart \/ ProcessPost \/ ProcessReturn \/ Crash

\* The loop goes on while the process runs, and the batch is started again
\* after a stop; nothing makes the process stop.
SpecRecovery ==
    /\ InitRecovery
    /\ [][NextRecovery]_vars
    /\ WF_vars(ProcessStart)
    /\ WF_vars(ProcessPost)
    /\ WF_vars(ProcessReturn)

\* The post is stored and normalized.
Normalized(id) == id \in DOMAIN p_posts /\ p_posts[id].processed_at

\* The rows that a run of process_all_posts can store for a scraped row.
PossibleResults(row) ==
    {UpdateProcessed(row, fields) :
        fields \in ProcessedOf[row.question_title][row.answer_content_raw]}

\* No record is written twice, and a normalized record is stored as a run
\* without a stop can store it.
RecoverySafe ==
    \A id \in DOMAIN p_posts :
        /\ p_writes[id] <= 1
        /\ Normalized(id) => p_posts[id] \in PossibleResults(ScrapedTable[id])

\* Every record that was unprocessed at the first start is normalized,
\* unless its processing raised.
RecoveryDone ==
    /\ p_first.started
    /\ \A id \in p_first.ids : Normalized(id) \/ id \in p_failed

BatchReturned == p_pc = "ready" /\ p_op \in {"process_all_posts", "label_all_posts"}

\* The posts of the batch that come after post id in the query result.
Later(id) == {p_batch[k] : k \in {j \in 1..Len(p_batch) : \E i \in 1..(j - 1) : p_batch[i] = id}}

\* The batch wrote the record.
BatchWrote(id) ==
    IF p_op = "process_all_posts"
    THEN p_posts[id] \in PossibleResults(p_before[id])
    ELSE p_posts[id] = UpdateLabels(p_before[id],
                           LabelsOf[CombinedText(p_before[id])][p_cfg.confidence_threshold])

\* C15: a persistence failure aborts the batch. When the write of a record
\* fails during process_all_posts or label_all_posts, the record is left as
\* it was, the failure is raised to the caller, and no later record of the
\* batch is written.
C15_PersistenceFailureAborts ==
    BatchReturned =>
        \A id \in DOMAIN p_outcomes :
            p_outcomes[id] = "update raises" =>
                /\ p_posts[id] = p_before[id]
                /\ p_raised
                /\ \A later \in Later(id) : p_posts[later] = p_before[later]

\* The posts of the batch so far that ended with the outcome.
Ended(outcome) == {id \in DOMAIN p_outcomes : p_outcomes[id] = outcome}

\* C16: batch operations never raise for a per-record issue. When the
\* computation for a record raises inside process_all_posts or
\* label_all_posts, no exception reaches the caller, the record is left
\* unchanged and is not counted, and the loop goes through the whole batch:
\* every record whose computation and write succeed is written and counted.
C16_PerRecordIssuesNotRaised ==
    (p_op \in {"process_all_posts", "label_all_posts"} /\ Ended("raises") # {}) =>
        /\ ~p_raised
        /\ \A id \in Ended("raises") : p_posts[id] = p_before[id]
        /\ \A id \in Ended("ok") : BatchWrote(id)
        /\ p_count = Cardinality(Ended("ok"))
        /\ p_pc = "ready" => DOMAIN p_outcomes = SeqToSet(p_batch)

\* The computation of a record raised, and a later record of the batch was
\* written and counted.
C16_Witness ==
    /\ BatchReturned
    /\ p_count > 0
    /\ \E id \in Ended("raises") : \E later \in Later(id) : later \in Ended("ok") /\ BatchWrote(later)

\* The content of the row is empty, shorter than min_comment_length or
\* longer than max_comment_length.
InvalidContent(row) ==
    \/ ~row.has_content
    \/ Len(row.answer_content_cleaned) < min_comment_length
    \/ Len(row.answer_content_cleaned) > max_comment_length

\* C17: invalid records never reach labeling. In every order of the calls of
\* process_all_posts, remove_invalid_data and label_all_posts, a normalized
\* record whose content is empty, shorter than the minimum or longer than
\* the maximum is never passed to label_post and never written with
\* judgments.
C17_InvalidNeverLabeled ==
    /\ p_op = "label_all_posts" =>
          \A id \in p_touched : ~InvalidContent(p_before[id])
    /\ \A id \in DOMAIN p_posts :
          (p_posts[id].processed_at /\ InvalidContent(p_posts[id])) =>
              p_posts[id].sentiment_score = <<>>

\* C18: removal is terminal. A record that remove_invalid_data deleted is
\* never in the store again and is never normalized, compared or labeled
\* after its removal; while the entry points are called in the order scrape,
\* process, remove, label, no post that was removed is stored again.
C18_RemovalTerminal ==
    /\ \A r \in p_removed : r[1] \notin DOMAIN p_posts
    /\ p_touched \cap p_gone = {}
    /\ p_inorder => \A r \in p_removed : \A id \in DOMAIN p_posts : p_posts[id].post_id # r[2]

\* In a run in the order of the pipeline a record was removed, and
\* label_all_posts labeled the records that were left.
C18_Witness ==
    /\ p_inorder
    /\ p_op = "label_all_posts"
    /\ p_removed # {}
    /\ p_touched # {}
    /\ p_count > 0

\* C19: fingerprint uniqueness. After any sequence of calls of
\* save_api_post_data and removals no two records of the store have the same
\* content_hash, and a save whose content_hash is that of a stored record
\* leaves the store unchanged.
C19_FingerprintUnique ==
    /\ \A id1, id2 \in DOMAIN p_posts :
          p_posts[id1].content_hash = p_posts[id2].content_hash => id1 = id2
    /\ (p_op = "save_api_post_data" /\ Existing(p_before, p_submitted.content_hash) # {}) =>
          p_posts = p_before

\* Post a4 was submitted with the content of the stored post a1, and was
\* not inserted.
C19_Witness ==
    /\ p_op = "save_api_post_data"
    /\ ~p_raised
    /\ \E id \in DOMAIN p_posts :
          /\ p_posts[id].content_hash = p_submitted.content_hash
          /\ p_posts[id].post_id # p_submitted.post_id

\* process_all_posts went into its loop: the query did not raise.
Processing == p_op = "process_all_posts" /\ ~p_raised

\* The records the call moved from unprocessed to processed.
Moved ==
    {id \in DOMAIN p_before :
        /\ ~p_before[id].processed_at
        /\ id \in DOMAIN p_posts /\ p_posts[id].processed_at /\ p_posts[id].has_content}

C29_OnlyNormalizedDeleted ==
    p_op = "remove_invalid_data" =>
        \A id \in Deleted(p_before, p_posts) : p_before[id].processed_at

\* The three labels and the sentiment score of a row.
Judgments(row) ==
    <<row.difficulty_label, row.course_evaluation_label, row.sentiment_label, row.sentiment_score>>

\* label_all_posts went into its loop: the query did not raise.
Labeling == p_op = "label_all_posts" /\ ~p_raised

SimilarBefore(i, j) ==
    i < j /\ AtLeastPercent(Similarities[d_rows[i][2]][d_rows[j][2]], similarity_threshold)

\* C25: the result of the duplicate scan. A record is flagged if and only
\* if it is a candidate and some candidate enumerated before it has a
\* similarity to it at or above the threshold, also when that candidate is
\* flagged itself; the candidate enumerated first is never flagged; the
\* flagged set is determined by the enumeration order and the threshold.
C25_FlaggedIffSimilarBefore ==
    d_pc \in {"detected", "removed"} =>
        /\ FlaggedIds = {d_rows[j][1] : j \in {k \in DOMAIN d_rows :
                                                \E i \in 1..(k - 1) : SimilarBefore(i, k)}}
        /\ d_rows # <<>> => d_rows[1][1] \notin FlaggedIds

\* Three candidates were scanned, the second is flagged for the first, and
\* the third is flagged for the second.
C25_Witness ==
    /\ d_pc = "detected"
    /\ Len(d_rows) = 3
    /\ SimilarBefore(1, 2)
    /\ SimilarBefore(2, 3)
    /\ {d_rows[2][1], d_rows[3][1]} \subseteq FlaggedIds

\* The ids of the rows the scan compared.
ComparedIds == {d_rows[k][1] : k \in DOMAIN d_rows}

\* The ids of the pairs the scan found.
PairedIds == {d_dups[k][1] : k \in DOMAIN d_dups} \cup {d_dups[k][2] : k \in DOMAIN d_dups}

\* The ids of the stored records whose content is longer than minimum.
LongerThan(minimum) ==
    {id \in DOMAIN d_posts :
        d_posts[id].has_content /\ Len(d_posts[id].answer_content_cleaned) > minimum}

\* C26 as stated: the candidates of the duplicate scan are the records whose
\* content is longer than the configured minimum valid length
\* (min_comment_length). A record at or below it is in no pair found, and
\* every stored record above it is compared.
C26_CandidatesAboveValidMinimum ==
    d_pc = "detected" =>
        /\ PairedIds \subseteq LongerThan(min_comment_length)
        /\ LongerThan(min_comment_length) \subseteq ComparedIds

\* C26: the candidates of the duplicate scan are the records whose content
\* is longer than the 50 characters of the query of detect_duplicates. A
\* record of 50 characters or fewer is in no pair found, and every stored
\* record of more than 50 characters is compared.
C26_CandidatesAboveFifty ==
    d_pc = "detected" =>
        /\ PairedIds \subseteq LongerThan(CandidateMinLength)
        /\ ComparedIds = LongerThan(CandidateMinLength)

\* A valid record of 50 characters is stored beside two near duplicates
\* that were compared; it was not compared.
C26_Witness ==
    /\ d_pc = "detected"
    /\ d_dups # <<>>
    /\ \E id \in LongerThan(min_comment_length) :
          /\ Len(d_posts[id].answer_content_cleaned) = CandidateMinLength
          /\ id \notin ComparedIds
(***************************************************************************)
(* The merge of the sources and the domain adjustments                     *)
(***************************************************************************)
\* The result that a contributing source gave in the last analysis.
ResultIn(method) ==
    IF method = "pattern" THEN PatternResults[a_text] ELSE ResultOf(method, a_answers)

\* v * w of a source for a score, in the unit of the scores
WeightedValue(method, key) == ResultIn(method)[key] * weights(method) * (ScoreUnit \div 100)

\* s1 = v1 * w1 and sk = (s(k-1) + vk * wk) / 2 over the first k sources
RECURSIVE DocumentedScore(_, _, _)
DocumentedScore(used, key, k) ==
    IF k = 0 THEN 0
    ELSE IF k = 1 THEN WeightedValue(used[1], key)
    ELSE (DocumentedScore(used, key, k - 1) + WeightedValue(used[k], key)) \div 2

ScoreKeys == {"difficulty_score", "course_score", "sentiment_score"}

\* C22: the merge is the documented fold. For the contributing sources of
\* an analysis in the declared order, with values v1..vn in [0, 10], 0
\* included, and weights w1..wn, the merged score of every dimension is sn,
\* where s1 = v1 * w1 and sk = (s(k-1) + vk * wk) / 2.
C22_DocumentedFold ==
    a_pc = "analyzed" =>
        \A key \in ScoreKeys :
            a_merged[key] = DocumentedScore(a_merged.method_used, key, Len(a_merged.method_used))
LabelKeys == {"difficulty_label", "course_label", "sentiment_label"}

\* The positions of the contributing sources that supplied a label, and of
\* those among them whose weight is greater than 0.5.
Suppliers(used, key) == {k \in 1..Len(used) : ResultIn(used[k])[key] # NoLabel}
HeavySuppliers(used, key) == {k \in Suppliers(used, key) : weights(used[k]) > 5}

Last(positions) == CHOOSE k \in positions : \A other \in positions : other <= k
First(positions) == CHOOSE k \in positions : \A other \in positions : other >= k

\* The label of the last supplier of weight above 0.5, else of the first
\* supplier, else none.
PrecedenceLabel(used, key) ==
    IF HeavySuppliers(used, key) # {} THEN ResultIn(used[Last(HeavySuppliers(used, key))])[key]
    ELSE IF Suppliers(used, key) # {} THEN ResultIn(used[First(Suppliers(used, key))])[key]
    ELSE NoLabel

\* C23: label precedence in the merge. After the merge of the contributing
\* sources, the label of a dimension is the label of the last source in
\* evaluation order that supplied a label and has a weight greater than 0.5;
\* if no supplier has such a weight, it is the label of the first supplier.
C23_LabelPrecedence ==
    a_pc = "analyzed" =>
        \A key \in LabelKeys : a_merged[key] = PrecedenceLabel(a_merged.method_used, key)

\* The patterns (0.7) and then TextBlob (0.4) supply different sentiment
\* labels, and no later source supplies one: the label of the patterns stays.
C23_Witness ==
    /\ a_pc = "analyzed"
    /\ a_merged.method_used = <<"pattern", "textblob">>
    /\ ResultIn("pattern").sentiment_label # NoLabel
    /\ ResultIn("textblob").sentiment_label \notin {NoLabel, ResultIn("pattern").sentiment_label}
    /\ a_merged.sentiment_label = ResultIn("pattern").sentiment_label

\* TextBlob (0.4) and then VADER (0.5) supply different labels, none of a
\* weight above 0.5: the label of the first stays.
C23_FirstSupplierKept ==
    /\ a_pc = "analyzed"
    /\ a_merged.method_used = <<"textblob", "vader">>
    /\ ResultIn("vader").sentiment_label # ResultIn("textblob").sentiment_label
    /\ a_merged.sentiment_label = ResultIn("textblob").sentiment_label
\* a score in [0, 10]
InRange(score) == score >= 0 /\ score <= Tenths(100)

\* The sentiment scores that the stress rule (- 1.5 above 4) and then the
\* success rule (+ 2 below 7) can leave for a merged score.
AfterStress(score) == {score} \cup (IF score > Tenths(40) THEN {score - Tenths(15)} ELSE {})
AfterSuccess(score) == {score} \cup (IF score < Tenths(70) THEN {score + Tenths(20)} ELSE {})
SentimentOutcomes(score) == UNION {AfterSuccess(stressed) : stressed \in AfterStress(score)}

\* C24: the domain adjustments keep the scores in range and fire only toward
\* the cap. For a merged result with scores in [0, 10], every score of the
\* returned result is in [0, 10]; the difficulty and the course score are
\* raised, by one step of 1.5 and 1.0, only from below 8; the sentiment score
\* is raised by 2 only from below 7 and lowered by 1.5 only from above 4; the
\* pass runs once, on the result of all merges, before the confidence is set.
C24_AdjustmentsBounded ==
    (a_pc = "analyzed" /\ \A key \in ScoreKeys : InRange(a_merged[key])) =>
        /\ \A key \in ScoreKeys : InRange(a_results[key])
        /\ a_results.difficulty_score # a_merged.difficulty_score =>
              /\ a_merged.difficulty_score < Tenths(80)
              /\ a_results.difficulty_score = a_merged.difficulty_score + Tenths(15)
        /\ a_results.course_score # a_merged.course_score =>
              /\ a_merged.course_score < Tenths(80)
              /\ a_results.course_score = a_merged.course_score + Tenths(10)
        /\ a_results.sentiment_score \in SentimentOutcomes(a_merged.sentiment_score)
        /\ a_merged.confidence = 0 /\ a_merged.method_used = a_results.method_used
        /\ a_results = WithConfidence(_apply_academic_adjustments(a_merged, a_text))

\* A text that names a top university and has a success phrase or a stress
\* phrase: the difficulty is at 9.5 and stays, the sentiment is moved.
C24_Witness ==
    /\ a_pc = "analyzed"
    /\ AnyIn(top_universities, LowerStr(a_text))
    /\ a_merged.difficulty_score >= Tenths(80)
    /\ a_results.difficulty_score = a_merged.difficulty_score
    /\ a_results.sentiment_score # a_merged.sentiment_score

\* A success phrase and a merged sentiment of 7 or more: it stays.
C24_WithheldAtCap ==
    /\ a_pc = "analyzed"
    /\ AnyIn(success_indicators, LowerStr(a_text))
    /\ a_merged.sentiment_score >= Tenths(70) /\ a_merged.sentiment_score < Tenths(80)
    /\ a_results.sentiment_score = a_merged.sentiment_score
(***************************************************************************)
(* The names that the pattern strategies emit                              *)
(***************************************************************************)
\* The canonical names of an alias index.
CanonicalNames(lookup) == {lookup[n][2] : n \in 1..Len(lookup)}

\* group(1) of the matches of a list of patterns in a text
Captured(ps, text) == UNION {SeqToSet(FindGroups(ps[k], text, 0)) : k \in 1..Len(ps)}

\* The canonical forms that the alias index has for the captures.
CanonicalOfCaptured(ps, lookup, text) ==
    UNION {SeqToSet(GetCanonical(lookup, g)) : g \in Captured(ps, text)}

\* The smart path: what _extract_with_patterns returned to
\* extract_entities_smart is, name by name, the canonical form of a capture.
SmartPatternsCanonical ==
    \A k \in 1..Len(r_outs) : r_outs[k].m = "pattern" =>
        /\ SeqToSet(r_outs[k].out.universities.v) =
              CanonicalOfCaptured(university_patterns, university_lookup, r_text)
        /\ SeqToSet(r_outs[k].out.universities.v) \subseteq CanonicalNames(university_lookup)
        /\ SeqToSet(r_outs[k].out.programs.v) =
              CanonicalOfCaptured(program_patterns, program_lookup, r_text)
        /\ SeqToSet(r_outs[k].out.programs.v) \subseteq CanonicalNames(program_lookup)

\* extract_entities returned the value of _extract_entities_keyword.
OnFallbackPath == r_pc = "done" /\ (~r_smart.called \/ r_smart.raised)

\* The fallback path: a university of the result is a configured keyword
\* found in the text or the canonical form of a capture of the patterns.
FallbackPatternsCanonical ==
    \A name \in SeqToSet(r_result.universities) :
        \/ name \in {Strip(w) : w \in KeywordsIn(university_keywords, r_text)}
        \/ name \in CanonicalOfCaptured(fallback_university_patterns, university_lookup, r_text)

\* C27: the pattern strategy emits only canonical names. Every entity it
\* contributes is the canonical form that the alias index has for the
\* captured text, and a capture without an entry contributes nothing, on the
\* smart path and on the keyword fallback path of extract_entities.
C27_PatternsEmitCanonical ==
    r_pc = "done" =>
        /\ SmartPatternsCanonical
        /\ OnFallbackPath => FallbackPatternsCanonical
(***************************************************************************)
(* The label that the keyword scorer chooses                               *)
(***************************************************************************)
\* The number of tokens of a phrase, and the number of places at which a
\* phrase occurs in a text.
TokenCount(phrase) == 1 + Cardinality({k \in 1..Len(phrase) : phrase[k] = " "})
OccurrenceCount(text_lower, phrase) == Cardinality(Occurrences(text_lower, LowerStr(phrase)))

\* sum(occurrences * phrase token count) over the first n phrases of a set
RECURSIVE WeightedSum(_, _, _)
WeightedSum(text_lower, keywords, n) ==
    IF n = 0 THEN 0
    ELSE WeightedSum(text_lower, keywords, n - 1)
         + OccurrenceCount(text_lower, keywords[n]) * TokenCount(keywords[n])

\* The sums of the labels of a keyword dictionary, in declared order.
SumsOf(table, text_lower) ==
    [k \in 1..Len(table) |-> WeightedSum(text_lower, table[k].keywords, Len(table[k].keywords))]

\* The sums of every text of the model, its max(word count, 1), and whether
\* an override rule of a classification applies to it.
ScorerFacts ==
    [text \in LabelTexts |->
        [difficulty |-> SumsOf(difficulty_keywords, LowerStr(text)),
         course |-> SumsOf(course_keywords, LowerStr(text)),
         sentiment |-> SumsOf(sentiment_keywords, LowerStr(text)),
         words |-> AtLeastOne(WordCount(LowerStr(text))),
         difficulty_rule |-> AnyIn(high_score_indicators, LowerStr(text))
                             \/ AnyIn(ease_indicators, LowerStr(text)),
         course_context |-> AnyIn(course_indicators, LowerStr(text)),
         sentiment_rule |-> \/ AnyIn(strong_positive, LowerStr(text))
                            \/ AnyIn(strong_negative, LowerStr(text))
                            \/ \E k \in 1..Len(negation_patterns) :
                                  Matches(negation_patterns[k], LowerStr(text))]]

\* The first position in declared order among those of the highest sum.
ArgMax(sums) ==
    CHOOSE k \in 1..Len(sums) :
        /\ \A j \in 1..Len(sums) : sums[j] <= sums[k]
        /\ \A j \in 1..(k - 1) : sums[j] < sums[k]

\* What a classification returns when none of its override rules applies:
\* the score sum / max(word count, 1) of the arg-max, at most 1.0, and its
\* label behind the threshold.
IsArgMax(label, confidence, table, sums, words) ==
    /\ confidence = AtMostOne(<<sums[ArgMax(sums)], words>>)
    /\ label \in {NoLabel, table[ArgMax(sums)].label}
    /\ Reaches(confidence, l_threshold) => label = table[ArgMax(sums)].label

\* C28: the keyword scorer returns the arg-max label. For every text the
\* classifications choose, before their override rules, the label whose
\* phrases have the highest score sum(occurrences * token count of the
\* phrase) / max(word count, 1), the first label in declared order on a
\* tie; the score is 0 for the empty text and never negative.
C28_KeywordArgMax ==
    l_pc = "returned" =>
        /\ ~ScorerFacts[l_text].difficulty_rule =>
              IsArgMax(l_results.difficulty_label, l_results.difficulty_confidence,
                       difficulty_keywords, ScorerFacts[l_text].difficulty, ScorerFacts[l_text].words)
        /\ ScorerFacts[l_text].course_context =>
              IsArgMax(l_results.course_label, l_results.course_confidence,
                       course_keywords, ScorerFacts[l_text].course, ScorerFacts[l_text].words)
        /\ l_results.course_label \in
              {NoLabel, course_keywords[ArgMax(ScorerFacts[l_text].course)].label}
        /\ ~ScorerFacts[l_text].sentiment_rule =>
              IsArgMax(l_results.sentiment_label, l_results.sentiment_confidence,
                       sentiment_keywords, ScorerFacts[l_text].sentiment, ScorerFacts[l_text].words)
        /\ l_results.difficulty_confidence[1] >= 0 /\ l_results.course_confidence[1] >= 0
        /\ l_results.sentiment_confidence[1] >= 0
        /\ l_text = <<>> =>
              /\ l_results.difficulty_confidence = <<0, 1>>
              /\ l_results.course_confidence[1] = 0
              /\ l_results.sentiment_confidence = <<0, 1>>

\* Without a threshold, a text in which no difficulty phrase occurs gets the
\* first difficulty label, and its sentiment label is the third one, the
\* only one with a phrase in the text.
C28_Witness ==
    /\ l_pc = "returned" /\ l_threshold = 0 /\ l_text # <<>>
    /\ \A k \in 1..Len(difficulty_keywords) : ScorerFacts[l_text].difficulty[k] = 0
    /\ l_results.difficulty_label = difficulty_keywords[1].label
    /\ ScorerFacts[l_text].sentiment[3] > 0
    /\ l_results.sentiment_label = sentiment_keywords[3].label

\* The empty text is labeled: every score is 0.
C28_EmptyText ==
    /\ l_pc = "returned" /\ l_text = <<>>
    /\ l_results.difficulty_confidence = <<0, 1>> /\ l_results.sentiment_confidence = <<0, 1>>

====
